---- MODULE Spec2Model ----
(***************************************************************************)
(* Model of the control-group hierarchy resolver of systemd_exporter       *)
(* (package cgroup): the mount-mode classifier cgUnifiedCached, the        *)
(* handle constructors NewDefaultFS / newFS and the controller path        *)
(* resolver FS.cgGetPath.                                                  *)
(*                                                                         *)
(* A Go string is a sequence of tokens; a token is the separator "/" or a  *)
(* file-name component, so "/sys/fs/cgroup" is                             *)
(* <<"/", "sys", "/", "fs", "/", "cgroup">> and "" is <<>>.                *)
(***************************************************************************)
EXTENDS Integers, Sequences, FiniteSets, TLC

VARIABLES
    controlGroupMode,   \* Collector.controlGroupMode, set once from the flag
    mountPointPrefix,   \* Collector.controlGroupMountPrefix, set once from the flag
    statfsFunc,         \* package variable statfsFunc: path -> outcome of the probe
    dirs,               \* what os.Stat finds at each mount point
    fs,                 \* the FS handle held by the caller
    ret,                \* what the most recent call returned
    files,              \* the cgroup file system: path -> the file found there
    dbus,               \* what systemd answers on the bus, and the connection to it
    flags,              \* the other command-line flags of the collector
    ch,                 \* the samples sent on the metrics channel
    logger,             \* the warnings written to c.logger
    workers,            \* the goroutines collect has started, one per unit
    wg,                 \* the counter of collect's sync.WaitGroup
    pc                  \* where collect is

vars == <<controlGroupMode, mountPointPrefix, statfsFunc, dirs, fs, ret,
          files, dbus, flags, ch, logger, workers, wg, pc>>

\* the host beside the mount table with the flags that stay as they are, and
\* the collector's own state
hostVars == <<files, dbus, flags>>

collectVars == <<ch, logger, workers, wg, pc>>

----------------------------------------------------------------------------
(* Strings and path/filepath *)

Sep == "/"

Str(name) == <<name>>

Last(s) == s[Len(s)]

Front(s) == SubSeq(s, 1, Len(s) - 1)

RECURSIVE SplitAcc(_, _, _)
SplitAcc(s, cur, acc) ==
    IF s = <<>> THEN Append(acc, cur)
    ELSE IF Head(s) = Sep THEN SplitAcc(Tail(s), <<>>, Append(acc, cur))
    ELSE SplitAcc(Tail(s), Append(cur, Head(s)), acc)

\* strings.Split(s, "/")
SplitElems(s) == SplitAcc(s, <<>>, <<>>)

RECURSIVE stringsJoin(_, _)
\* strings.Join(elems, sep)
stringsJoin(elems, sep) ==
    IF elems = <<>> THEN <<>>
    ELSE IF Len(elems) = 1 THEN Head(elems)
    ELSE Head(elems) \o sep \o stringsJoin(Tail(elems), sep)

RECURSIVE CleanElems(_, _, _)
\* the element loop of filepath.Clean: out is the stack of elements kept so far
CleanElems(elems, out, rooted) ==
    IF elems = <<>> THEN out
    ELSE LET e == Head(elems)
             rest == Tail(elems)
         IN  IF e = <<>> \/ e = <<".">> THEN CleanElems(rest, out, rooted)
             ELSE IF e = <<"..">> THEN
                 IF out # <<>> /\ Last(out) # <<"..">>
                 THEN CleanElems(rest, Front(out), rooted)
                 ELSE IF ~rooted THEN CleanElems(rest, Append(out, e), rooted)
                 ELSE CleanElems(rest, out, rooted)
             ELSE CleanElems(rest, Append(out, e), rooted)

\* filepath.Clean
Clean(path) ==
    IF path = <<>> THEN <<".">>
    ELSE LET rooted == Head(path) = Sep
             body == stringsJoin(CleanElems(SplitElems(path), <<>>, rooted), <<Sep>>)
         IN  IF rooted THEN <<Sep>> \o body
             ELSE IF body = <<>> THEN <<".">>
             ELSE body

RECURSIVE filepathJoin(_)
\* filepath.Join: leading empty elements are dropped, the rest is joined and cleaned
filepathJoin(elems) ==
    IF elems = <<>> THEN <<>>
    ELSE IF Head(elems) # <<>> THEN Clean(stringsJoin(elems, <<Sep>>))
    ELSE filepathJoin(Tail(elems))

----------------------------------------------------------------------------
(* Constants of package cgroup *)

DefaultMountPoint == <<Sep, "sys", Sep, "fs", Sep, "cgroup">>

UnifiedMountPoint == <<Sep, "sys", Sep, "fs", Sep, "cgroup", Sep, "unified">>

SystemdMountPoint == <<Sep, "sys", Sep, "fs", Sep, "cgroup", Sep, "systemd">>

MountModeUnknown == 0

MountModeLegacy == 1

MountModeHybrid == 2

MountModeUnified == 3

MountModes == {MountModeUnknown, MountModeLegacy, MountModeHybrid, MountModeUnified}

tmpFsMagic == 16914836

cgroupSuperMagic == 2613483

cgroup2SuperMagic == 1667723888

\* ControlGroupMode; 0 is the value ControlGroupModeString returns with an error
Auto == 1

Legacy == 2

Hybrid == 3

UnifiedV232 == 4

Unified == 5

ControlGroupModes == {0, Auto, Legacy, Hybrid, UnifiedV232, Unified}

Nil == <<>>

\* errors.Errorf / errors.Wrapf / fmt.Errorf: a message and what it is about
Errorf(msg, arg) == <<msg, arg>>

\* type FS struct
FS(mountMode, unifiedPath, legacyPath) ==
    [cgroupUnified |-> mountMode, unifiedPath |-> unifiedPath, legacyPath |-> legacyPath]

ZeroFS == FS(MountModeUnknown, <<>>, <<>>)

----------------------------------------------------------------------------
(* Controller path resolver *)

cgGetPath_HybridCpuLegacy(h, controller, subpath, suffix) ==
    IF h.cgroupUnified = MountModeUnknown
    THEN [path |-> <<>>, err |-> Errorf("Cannot determine path with unknown mounting hierarchy", <<>>)]
    ELSE IF h.cgroupUnified = MountModeLegacy \/ h.cgroupUnified = MountModeHybrid
    THEN [path |-> filepathJoin(<<h.legacyPath, controller, subpath, suffix>>), err |-> Nil]
    ELSE [path |-> filepathJoin(<<h.unifiedPath, subpath, suffix>>), err |-> Nil]

\* FS.cgGetPath
cgGetPath(h, controller, subpath, suffix) ==
    IF h.cgroupUnified = MountModeUnknown
    THEN [path |-> <<>>, err |-> Errorf("Cannot determine path with unknown mounting hierarchy", <<>>)]
    ELSE CASE h.cgroupUnified = MountModeLegacy ->
                [path |-> filepathJoin(<<h.legacyPath, controller, subpath, suffix>>), err |-> Nil]
           [] h.cgroupUnified = MountModeHybrid ->
                IF controller = Str("cpu")
                THEN [path |-> filepathJoin(<<h.unifiedPath, subpath, suffix>>), err |-> Nil]
                ELSE [path |-> filepathJoin(<<h.legacyPath, controller, subpath, suffix>>), err |-> Nil]
           [] h.cgroupUnified = MountModeUnified ->
                [path |-> filepathJoin(<<h.unifiedPath, subpath, suffix>>), err |-> Nil]
           [] OTHER ->
                [path |-> <<>>, err |-> Errorf("unknown cgroup mount mode (e.g. unified mode)", h.cgroupUnified)]

----------------------------------------------------------------------------
(* Inputs of the path resolver *)

testFixturesUnified == <<"fixtures", Sep, "cgroup-unified">>

testFixturesLegacy == <<"fixtures", Sep, "cgroup-legacy">>

HandleRoots == {<<>>, testFixturesUnified, testFixturesLegacy, DefaultMountPoint, UnifiedMountPoint}

Controllers == {Str("cpu"), Str("mem"), Str("cpuacct")}

Subpaths == { <<Sep>>,
              <<Sep, "system.slice">>,
              <<Sep, "system.slice", Sep, "a.service">>,
              <<"foobar">> }

Suffixes == {Str("cpu.stat"), Str("memory.stat")}

NoRet == [op |-> "none"]

\* no collection is going on
NoCollect ==
    /\ ch = <<>>
    /\ logger = {}
    /\ workers = <<>>
    /\ wg = 0
    /\ pc = "idle"

\* no stat file and no bus is looked at
NoHost ==
    /\ files = <<>>
    /\ dbus = <<>>
    /\ flags = <<>>

\* the handles the tests build: newFS(...) followed by fs.cgroupUnified = mountMode
InitPath ==
    /\ controlGroupMode = Auto
    /\ mountPointPrefix = <<>>
    /\ statfsFunc = <<>>
    /\ dirs = <<>>
    /\ fs \in {FS(m, u, l) : m \in MountModes, u \in HandleRoots, l \in HandleRoots}
    /\ ret = NoRet
    /\ NoHost
    /\ NoCollect

Call_cgGetPath(controller, subpath, suffix) ==
    /\ ret' = [op |-> "cgGetPath", controller |-> controller, subpath |-> subpath,
               suffix |-> suffix, r |-> cgGetPath(fs, controller, subpath, suffix)]
    /\ UNCHANGED <<controlGroupMode, mountPointPrefix, statfsFunc, dirs, fs>>
    /\ UNCHANGED <<hostVars, collectVars>>

NextPath ==
    \E controller \in Controllers, subpath \in Subpaths, suffix \in Suffixes :
        Call_cgGetPath(controller, subpath, suffix)

SpecPath == InitPath /\ [][NextPath]_vars

----------------------------------------------------------------------------
(* Properties of the path resolver *)

\* the components of a path: its elements between separators, empty ones dropped
Components(p) == SelectSeq(SplitElems(p), LAMBDA e : e # <<>>)

IsAbsPath(p) == p # <<>> /\ Head(p) = Sep

\* root/parts[1]/.../parts[n] as a location: the components in order, absolute iff
\* the first non-empty piece is absolute
RECURSIVE Below(_, _)
Below(root, parts) ==
    IF parts = <<>> THEN Components(root)
    ELSE Below(root, Front(parts)) \o Components(Last(parts))

IsLocation(p, root, parts) ==
    /\ Components(p) = Below(root, parts)
    /\ IsAbsPath(p) = IsAbsPath(root \o stringsJoin(parts, <<>>))
    /\ \A i \in 2..Len(p) : ~(p[i] = Sep /\ p[i - 1] = Sep)
    /\ Last(p) # Sep

\* C1: cgGetPath fails iff the topology is Unknown, and otherwise returns
\* Legacy -> legacyRoot/controller/subpath/file; Unified -> unifiedRoot/subpath/file;
\* Hybrid -> unifiedRoot/subpath/file when controller is "cpu", else
\* legacyRoot/controller/subpath/file.
C1_Resolve ==
    ret.op = "cgGetPath" =>
        LET viaLegacy == IsLocation(ret.r.path, fs.legacyPath, <<ret.controller, ret.subpath, ret.suffix>>)
            viaUnified == IsLocation(ret.r.path, fs.unifiedPath, <<ret.subpath, ret.suffix>>)
        IN  /\ (ret.r.err # Nil) <=> (fs.cgroupUnified = MountModeUnknown)
            /\ fs.cgroupUnified = MountModeLegacy => viaLegacy
            /\ fs.cgroupUnified = MountModeUnified => viaUnified
            /\ fs.cgroupUnified = MountModeHybrid =>
                   IF ret.controller = Str("cpu") THEN viaUnified ELSE viaLegacy

\* a cpu.stat lookup on a hybrid handle whose two roots differ went to the unified tree
C1_Witness ==
    /\ ret.op = "cgGetPath"
    /\ fs.cgroupUnified = MountModeHybrid
    /\ fs.unifiedPath = testFixturesUnified
    /\ fs.legacyPath = testFixturesLegacy
    /\ ret.controller = Str("cpu")
    /\ ret.subpath = <<Sep, "system.slice">>
    /\ ret.r.path = <<"fixtures", Sep, "cgroup-unified", Sep, "system.slice", Sep, "cpu.stat">>

----------------------------------------------------------------------------
(* Mount-mode classifier *)

\* a probe outcome: the call fails and leaves the buffer alone, or succeeds and
\* writes the filesystem type tag into stat.Type
UnknownFsType == 0

FsTypes == {UnknownFsType, tmpFsMagic, cgroupSuperMagic, cgroup2SuperMagic}

StatFail == [ok |-> FALSE, Type |-> UnknownFsType]

StatOk(t) == [ok |-> TRUE, Type |-> t]

StatOutcomes == {StatFail} \cup {StatOk(t) : t \in FsTypes}

\* statfsFunc(path, &fs): the error, and fs.Type after the call
statfs(statfn, path, buf) ==
    LET o == statfn[path]
    IN  [err |-> IF o.ok THEN Nil ELSE Errorf("statfs", path),
         Type |-> IF o.ok THEN o.Type ELSE buf]

prefixMountPoint(prefix, mountPoint) ==
    IF Len(prefix) > 0 THEN filepathJoin(<<prefix, mountPoint>>) ELSE mountPoint

\* the four values cgUnifiedCached returns, and the probes it issued
Classified(mountMode, unifiedPath, legacyPath, err, probes) ==
    [mode |-> mountMode, unifiedPath |-> unifiedPath, legacyPath |-> legacyPath,
     err |-> err, probes |-> probes]

cgExplicit_ProbesFirst(mode, d, u, s) ==
    CASE mode = Legacy -> Classified(MountModeLegacy, <<>>, d, Nil, <<d>>)
      [] mode = UnifiedV232 -> Classified(MountModeHybrid, u, s, Nil, <<d>>)
      [] mode = Unified -> Classified(MountModeHybrid, d, <<>>, Nil, <<d>>)
      [] OTHER -> Classified(MountModeUnknown, <<>>, <<>>, Errorf("unknown control group mode", mode), <<>>)

\* cgUnifiedCached, the switch on an explicit mode
cgExplicit(mode, d, u, s) ==
    CASE mode = Legacy -> Classified(MountModeLegacy, <<>>, d, Nil, <<>>)
      [] mode = UnifiedV232 -> Classified(MountModeHybrid, u, s, Nil, <<>>)
      [] mode = Unified -> Classified(MountModeHybrid, d, <<>>, Nil, <<>>)
      [] OTHER -> Classified(MountModeUnknown, <<>>, <<>>, Errorf("unknown control group mode", mode), <<>>)

cgProbeSystemd_RootsMixedUp(statfn, d, u, s, buf, probes) ==
    LET r == statfs(statfn, s, buf)
        issued == Append(probes, s)
    IN  IF r.err # Nil
        THEN Classified(MountModeUnknown, <<>>, <<>>, Errorf("failed statfs", s), issued)
        ELSE CASE r.Type = cgroup2SuperMagic -> Classified(MountModeHybrid, s, d, Nil, issued)
               [] r.Type = cgroupSuperMagic -> Classified(MountModeLegacy, <<>>, d, Nil, issued)
               [] OTHER -> Classified(MountModeUnknown, <<>>, <<>>,
                                      Errorf("unknown magic number for fstype returned by statfs", s), issued)

cgProbeSystemd_LegacyAtSystemd(statfn, d, u, s, buf, probes) ==
    LET r == statfs(statfn, s, buf)
        issued == Append(probes, s)
    IN  IF r.err # Nil
        THEN Classified(MountModeUnknown, <<>>, <<>>, Errorf("failed statfs", s), issued)
        ELSE CASE r.Type = cgroup2SuperMagic -> Classified(MountModeHybrid, u, s, Nil, issued)
               [] r.Type = cgroupSuperMagic -> Classified(MountModeLegacy, <<>>, s, Nil, issued)
               [] OTHER -> Classified(MountModeUnknown, <<>>, <<>>,
                                      Errorf("unknown magic number for fstype returned by statfs", s), issued)

cgProbeSystemd_ErrIgnored(statfn, d, u, s, buf, probes) ==
    LET r == statfs(statfn, s, buf)
        issued == Append(probes, s)
    IN  CASE r.Type = cgroup2SuperMagic -> Classified(MountModeHybrid, u, s, Nil, issued)
          [] r.Type = cgroupSuperMagic -> Classified(MountModeLegacy, <<>>, d, Nil, issued)
          [] OTHER -> Classified(MountModeUnknown, <<>>, <<>>,
                                 Errorf("unknown magic number for fstype returned by statfs", s), issued)

\* cgUnifiedCached, the probe of the systemd sibling
cgProbeSystemd(statfn, d, u, s, buf, probes) ==
    LET r == statfs(statfn, s, buf)
        issued == Append(probes, s)
    IN  IF r.err # Nil
        THEN Classified(MountModeUnknown, <<>>, <<>>, Errorf("failed statfs", s), issued)
        ELSE CASE r.Type = cgroup2SuperMagic -> Classified(MountModeHybrid, u, s, Nil, issued)
               [] r.Type = cgroupSuperMagic -> Classified(MountModeLegacy, <<>>, d, Nil, issued)
               [] OTHER -> Classified(MountModeUnknown, <<>>, <<>>,
                                      Errorf("unknown magic number for fstype returned by statfs", s), issued)

cgProbeUnified_AlwaysProbesSystemd(statfn, d, u, s, buf, probes) ==
    LET r == statfs(statfn, u, buf)
        issued == Append(probes, u)
    IN  IF r.err = Nil /\ r.Type = cgroup2SuperMagic
        THEN Classified(MountModeHybrid, u, d, Nil, Append(issued, s))
        ELSE cgProbeSystemd(statfn, d, u, s, r.Type, issued)

cgProbeUnified_RootsSwapped(statfn, d, u, s, buf, probes) ==
    LET r == statfs(statfn, u, buf)
        issued == Append(probes, u)
    IN  IF r.err = Nil /\ r.Type = cgroup2SuperMagic
        THEN Classified(MountModeHybrid, d, u, Nil, issued)
        ELSE cgProbeSystemd(statfn, d, u, s, r.Type, issued)

\* cgUnifiedCached, case tmpFsMagic: the probe of the unified sibling
cgProbeUnified(statfn, d, u, s, buf, probes) ==
    LET r == statfs(statfn, u, buf)
        issued == Append(probes, u)
    IN  IF r.err = Nil /\ r.Type = cgroup2SuperMagic
        THEN Classified(MountModeHybrid, u, d, Nil, issued)
        ELSE cgProbeSystemd(statfn, d, u, s, r.Type, issued)

cgProbeDefault_HybridAtDefault(mode, statfn, d, u, s) ==
    LET first == IF mode = Auto THEN statfs(statfn, d, 0) ELSE [err |-> Nil, Type |-> 0]
        p1 == IF mode = Auto THEN <<d>> ELSE <<>>
        second == statfs(statfn, d, first.Type)
        p2 == Append(p1, d)
    IN  IF first.err # Nil
        THEN Classified(MountModeUnknown, <<>>, <<>>, Errorf("failed statfs", d), p1)
        ELSE IF first.Type = cgroup2SuperMagic \/ mode = Unified
        THEN Classified(MountModeHybrid, d, <<>>, Nil, p1)
        ELSE IF second.err # Nil
        THEN Classified(MountModeUnknown, <<>>, <<>>, Errorf("failed statfs", d), p2)
        ELSE CASE second.Type = cgroup2SuperMagic -> Classified(MountModeUnified, d, <<>>, Nil, p2)
               [] second.Type = tmpFsMagic -> cgProbeUnified(statfn, d, u, s, second.Type, p2)
               [] OTHER -> Classified(MountModeUnknown, <<>>, <<>>,
                                      Errorf("unknown magic number for fstype returned by statfs", d), p2)

\* cgUnifiedCached, the probes of the default root
cgProbeDefault(mode, statfn, d, u, s) ==
    LET first == IF mode = Auto THEN statfs(statfn, d, 0) ELSE [err |-> Nil, Type |-> 0]
        p1 == IF mode = Auto THEN <<d>> ELSE <<>>
        second == statfs(statfn, d, first.Type)
        p2 == Append(p1, d)
    IN  IF first.err # Nil
        THEN Classified(MountModeUnknown, <<>>, <<>>, Errorf("failed statfs", d), p1)
        ELSE IF first.Type = cgroup2SuperMagic \/ mode = Unified
        THEN Classified(MountModeUnified, d, <<>>, Nil, p1)
        ELSE IF second.err # Nil
        THEN Classified(MountModeUnknown, <<>>, <<>>, Errorf("failed statfs", d), p2)
        ELSE CASE second.Type = cgroup2SuperMagic -> Classified(MountModeUnified, d, <<>>, Nil, p2)
               [] second.Type = tmpFsMagic -> cgProbeUnified(statfn, d, u, s, second.Type, p2)
               [] OTHER -> Classified(MountModeUnknown, <<>>, <<>>,
                                      Errorf("unknown magic number for fstype returned by statfs", d), p2)

cgUnifiedCached(mode, mountPrintPrefix, statfn) ==
    LET defaultMountPoint == prefixMountPoint(mountPrintPrefix, DefaultMountPoint)
        unifiedMountPoint == prefixMountPoint(mountPrintPrefix, UnifiedMountPoint)
        systemdMountPoint == prefixMountPoint(mountPrintPrefix, SystemdMountPoint)
    IN  IF mode # Auto
        THEN cgExplicit(mode, defaultMountPoint, unifiedMountPoint, systemdMountPoint)
        ELSE cgProbeDefault(mode, statfn, defaultMountPoint, unifiedMountPoint, systemdMountPoint)

\* os.Stat as checkMountPath uses it
osStat(dirsv, path) == IF path \in DOMAIN dirsv THEN dirsv[path] ELSE "missing"

checkMountPath(dirsv, mountPoint) ==
    CASE osStat(dirsv, mountPoint) = "missing" -> Errorf("could not read", mountPoint)
      [] osStat(dirsv, mountPoint) = "file" -> Errorf("mount point is not a directory", mountPoint)
      [] OTHER -> Nil

newFS(dirsv, mountMode, unifiedPath, legacyPath) ==
    IF unifiedPath # <<>> /\ checkMountPath(dirsv, unifiedPath) # Nil
    THEN [fs |-> ZeroFS, err |-> checkMountPath(dirsv, unifiedPath)]
    ELSE IF legacyPath # <<>> /\ checkMountPath(dirsv, legacyPath) # Nil
    THEN [fs |-> ZeroFS, err |-> checkMountPath(dirsv, legacyPath)]
    ELSE [fs |-> FS(mountMode, unifiedPath, legacyPath), err |-> Nil]

\* NewDefaultFS; probes records the statfsFunc calls made on the way
NewDefaultFS(mode, mountPointPrefixArg, statfn, dirsv) ==
    LET c == cgUnifiedCached(mode, mountPointPrefixArg, statfn)
        n == newFS(dirsv, c.mode, c.unifiedPath, c.legacyPath)
    IN  IF c.err # Nil \/ c.mode = MountModeUnknown
        THEN [fs |-> ZeroFS, err |-> Errorf("could not determine cgroupfs mount mode", c.err),
              probes |-> c.probes]
        ELSE [fs |-> n.fs, err |-> n.err, probes |-> c.probes]

----------------------------------------------------------------------------
(* The process: the flags are read once, then classifications are requested *)

MountPointPrefixes == { <<>>, <<Sep, "host", Sep>> }

MountPaths(prefix) ==
    {prefixMountPoint(prefix, DefaultMountPoint),
     prefixMountPoint(prefix, UnifiedMountPoint),
     prefixMountPoint(prefix, SystemdMountPoint)}

DirKinds == {"dir", "file", "missing"}

Init ==
    /\ controlGroupMode \in ControlGroupModes
    /\ mountPointPrefix \in MountPointPrefixes
    /\ statfsFunc \in [MountPaths(mountPointPrefix) -> StatOutcomes]
    /\ dirs \in [MountPaths(mountPointPrefix) -> DirKinds]
    /\ fs = ZeroFS
    /\ ret = NoRet
    /\ NoHost
    /\ NoCollect

\* statfsFunc = table.statFn, or the host remounting one of the three paths
SetStatfsFunc(path, outcome) ==
    /\ statfsFunc' = [statfsFunc EXCEPT ![path] = outcome]
    /\ UNCHANGED <<controlGroupMode, mountPointPrefix, dirs, fs, ret>>
    /\ UNCHANGED <<hostVars, collectVars>>

Call_cgUnifiedCached ==
    /\ ret' = [op |-> "cgUnifiedCached",
               r |-> cgUnifiedCached(controlGroupMode, mountPointPrefix, statfsFunc)]
    /\ UNCHANGED <<controlGroupMode, mountPointPrefix, statfsFunc, dirs, fs>>
    /\ UNCHANGED <<hostVars, collectVars>>

Call_NewDefaultFS ==
    LET r == NewDefaultFS(controlGroupMode, mountPointPrefix, statfsFunc, dirs)
    IN  /\ fs' = r.fs
        /\ ret' = [op |-> "NewDefaultFS", r |-> r]
        /\ UNCHANGED <<controlGroupMode, mountPointPrefix, statfsFunc, dirs>>
        /\ UNCHANGED <<hostVars, collectVars>>

\* the host keeps its mount layout while the process runs
Next ==
    \/ Call_cgUnifiedCached
    \/ Call_NewDefaultFS

Spec == Init /\ [][Next]_vars

\* the same process on a host whose mounts change under it
NextRemount ==
    \/ \E path \in DOMAIN statfsFunc, outcome \in StatOutcomes : SetStatfsFunc(path, outcome)
    \/ Call_cgUnifiedCached
    \/ Call_NewDefaultFS

SpecRemount == Init /\ [][NextRemount]_vars

----------------------------------------------------------------------------
(* Properties of the classifier.  Under Spec the probe does not change, so   *)
(* a state relates what the probe reports to what the last call returned.   *)

\* the three well-known mount points as the process sees them
HostRoot == IF mountPointPrefix = <<>> THEN <<>> ELSE <<Sep, "host">>

DefaultRoot == HostRoot \o DefaultMountPoint

UnifiedRoot == HostRoot \o UnifiedMountPoint

SystemdRoot == HostRoot \o SystemdMountPoint

Reports(path, tag) == statfsFunc[path].ok /\ statfsFunc[path].Type = tag

ProbeFails(path) == ~statfsFunc[path].ok

Probed(probes, path) == \E i \in 1..Len(probes) : probes[i] = path

\* C2: in Auto mode, cgroup2 at the default root gives Unified with
\* unifiedRoot = the prefixed default root, legacyRoot empty, no error, and
\* neither sibling is probed.
C2_UnifiedAtDefault ==
    (/\ ret.op = "cgUnifiedCached"
     /\ controlGroupMode = Auto
     /\ Reports(DefaultRoot, cgroup2SuperMagic))
    => /\ ret.r.mode = MountModeUnified
       /\ ret.r.unifiedPath = DefaultRoot
       /\ ret.r.legacyPath = <<>>
       /\ ret.r.err = Nil
       /\ ~Probed(ret.r.probes, UnifiedRoot)
       /\ ~Probed(ret.r.probes, SystemdRoot)

C2_Witness ==
    /\ ret.op = "cgUnifiedCached"
    /\ controlGroupMode = Auto
    /\ mountPointPrefix # <<>>
    /\ Reports(DefaultRoot, cgroup2SuperMagic)
    /\ Reports(UnifiedRoot, cgroup2SuperMagic)
    /\ ret.r.mode = MountModeUnified
    /\ ret.r.unifiedPath = <<Sep, "host", Sep, "sys", Sep, "fs", Sep, "cgroup">>
    /\ ret.r.probes = <<DefaultRoot>>

\* C3: in Auto mode, tmpfs at the default root and cgroup2 at the unified
\* sibling give Hybrid with unifiedRoot = the unified sibling, legacyRoot = the
\* default root and no error, whatever the systemd sibling reports.
C3_HybridV233 ==
    (/\ ret.op = "cgUnifiedCached"
     /\ controlGroupMode = Auto
     /\ Reports(DefaultRoot, tmpFsMagic)
     /\ Reports(UnifiedRoot, cgroup2SuperMagic))
    => /\ ret.r.mode = MountModeHybrid
       /\ ret.r.unifiedPath = UnifiedRoot
       /\ ret.r.legacyPath = DefaultRoot
       /\ ret.r.err = Nil

C3_Witness ==
    /\ ret.op = "cgUnifiedCached"
    /\ controlGroupMode = Auto
    /\ Reports(DefaultRoot, tmpFsMagic)
    /\ Reports(UnifiedRoot, cgroup2SuperMagic)
    /\ ProbeFails(SystemdRoot)
    /\ ret.r.mode = MountModeHybrid
    /\ ret.r.unifiedPath = UnifiedRoot
    /\ ret.r.legacyPath = DefaultRoot

\* C4: in Auto mode, tmpfs at the default root, a unified sibling that fails
\* or is not cgroup2, and cgroup2 at the systemd sibling give Hybrid with no
\* error, unifiedRoot = the unified sibling path, legacyRoot = the systemd sibling.
C4_HybridV232 ==
    (/\ ret.op = "cgUnifiedCached"
     /\ controlGroupMode = Auto
     /\ Reports(DefaultRoot, tmpFsMagic)
     /\ ~Reports(UnifiedRoot, cgroup2SuperMagic)
     /\ Reports(SystemdRoot, cgroup2SuperMagic))
    => /\ ret.r.mode = MountModeHybrid
       /\ ret.r.err = Nil
       /\ ret.r.unifiedPath = UnifiedRoot
       /\ ret.r.legacyPath = SystemdRoot

C4_Witness ==
    /\ ret.op = "cgUnifiedCached"
    /\ controlGroupMode = Auto
    /\ Reports(DefaultRoot, tmpFsMagic)
    /\ ProbeFails(UnifiedRoot)
    /\ Reports(SystemdRoot, cgroup2SuperMagic)
    /\ ret.r.mode = MountModeHybrid
    /\ ret.r.unifiedPath = UnifiedRoot
    /\ ret.r.legacyPath = SystemdRoot
    /\ ret.r.probes = <<DefaultRoot, DefaultRoot, UnifiedRoot, SystemdRoot>>

\* C5: in Auto mode, tmpfs at the default root, an absent unified sibling and
\* cgroup (v1) at the systemd sibling give Legacy with legacyRoot = the default
\* root, unifiedRoot empty and no error.
C5_Legacy ==
    (/\ ret.op = "cgUnifiedCached"
     /\ controlGroupMode = Auto
     /\ Reports(DefaultRoot, tmpFsMagic)
     /\ ProbeFails(UnifiedRoot)
     /\ Reports(SystemdRoot, cgroupSuperMagic))
    => /\ ret.r.mode = MountModeLegacy
       /\ ret.r.legacyPath = DefaultRoot
       /\ ret.r.unifiedPath = <<>>
       /\ ret.r.err = Nil

C5_Witness ==
    /\ ret.op = "cgUnifiedCached"
    /\ controlGroupMode = Auto
    /\ Reports(DefaultRoot, tmpFsMagic)
    /\ ProbeFails(UnifiedRoot)
    /\ Reports(SystemdRoot, cgroupSuperMagic)
    /\ ret.r.mode = MountModeLegacy
    /\ ret.r.legacyPath = DefaultRoot

\* when Auto detection has to give up, as the claim lists it
AutoGivesUp ==
    \/ ProbeFails(DefaultRoot)
    \/ ~Reports(DefaultRoot, cgroup2SuperMagic) /\ ~Reports(DefaultRoot, tmpFsMagic)
    \/ /\ Reports(DefaultRoot, tmpFsMagic)
       /\ ~Reports(UnifiedRoot, cgroup2SuperMagic)
       /\ \/ ProbeFails(SystemdRoot)
          \/ ~Reports(SystemdRoot, cgroup2SuperMagic) /\ ~Reports(SystemdRoot, cgroupSuperMagic)

\* C6: cgUnifiedCached returns an error iff the topology is Unknown, and then
\* both roots are empty; in Auto mode that is exactly when the default-root
\* probe fails, or its tag is neither cgroup2 nor tmpfs, or (tmpfs, no cgroup2
\* at the unified sibling, and the systemd sibling fails or is neither cgroup2
\* nor cgroup v1); only a failure of the unified sibling probe is ignored.
C6_ErrorIffUnknown ==
    ret.op = "cgUnifiedCached"
    => /\ (ret.r.err # Nil) <=> (ret.r.mode = MountModeUnknown)
       /\ (ret.r.mode = MountModeUnknown)
             => (ret.r.unifiedPath = <<>> /\ ret.r.legacyPath = <<>>)
       /\ (controlGroupMode = Auto)
             => ((ret.r.mode = MountModeUnknown) <=> AutoGivesUp)
       /\ \A i \in 1..Len(ret.r.probes) :
             (ProbeFails(ret.r.probes[i]) /\ ret.r.probes[i] # UnifiedRoot)
                 => ret.r.err # Nil

\* the systemd sibling could not be probed after a unified sibling that is mounted
\* but is not cgroup2: the failure is reported
C6_Witness ==
    /\ ret.op = "cgUnifiedCached"
    /\ controlGroupMode = Auto
    /\ Reports(DefaultRoot, tmpFsMagic)
    /\ Reports(UnifiedRoot, cgroupSuperMagic)
    /\ ProbeFails(SystemdRoot)
    /\ ret.r.mode = MountModeUnknown
    /\ ret.r.err = Errorf("failed statfs", SystemdRoot)
    /\ ret.r.probes = <<DefaultRoot, DefaultRoot, UnifiedRoot, SystemdRoot>>

\* C7: with an explicit override (any mode other than Auto) cgUnifiedCached
\* never invokes statfsFunc, whatever the probe would have reported.
C7_OverrideNeverProbes ==
    (ret.op = "cgUnifiedCached" /\ controlGroupMode # Auto) => ret.r.probes = <<>>

\* a Legacy override on a host that Auto would classify as Unified
C7_Witness ==
    /\ ret.op = "cgUnifiedCached"
    /\ controlGroupMode = Legacy
    /\ Reports(DefaultRoot, cgroup2SuperMagic)
    /\ ret.r.mode = MountModeLegacy
    /\ ret.r.probes = <<>>

\* C8: each override value of the configuration surface (legacy, hybrid,
\* unifiedv232, unified) short-circuits to a known topology, without probing
\* and with no error.
C8_EveryOverrideKnown ==
    (ret.op = "cgUnifiedCached" /\ controlGroupMode \in {Legacy, Hybrid, UnifiedV232, Unified})
    => /\ ret.r.mode # MountModeUnknown
       /\ ret.r.err = Nil
       /\ ret.r.probes = <<>>

\* the roots a topology requires
RootsFit(mountMode, unifiedPath, legacyPath) ==
    /\ mountMode = MountModeLegacy => legacyPath # <<>> /\ unifiedPath = <<>>
    /\ mountMode = MountModeUnified => unifiedPath # <<>> /\ legacyPath = <<>>
    /\ mountMode = MountModeHybrid => unifiedPath # <<>> /\ legacyPath # <<>>

\* C9: every handle produced by a successful classification has the roots its
\* topology requires: Legacy only the legacy root, Unified only the unified
\* root, Hybrid both.
C9_HandleInvariant ==
    /\ (ret.op = "NewDefaultFS" /\ ret.r.err = Nil)
          => RootsFit(fs.cgroupUnified, fs.unifiedPath, fs.legacyPath)
    /\ (ret.op = "cgUnifiedCached" /\ ret.r.err = Nil)
          => RootsFit(ret.r.mode, ret.r.unifiedPath, ret.r.legacyPath)

\* C10: classification is computed once and cached: once a NewDefaultFS call
\* has classified the host, a later call issues no probe and returns the handle
\* the earlier call returned, even if the probe now reports another layout.
C10_ClassifiedOnce ==
    [][(Call_NewDefaultFS /\ ret.op = "NewDefaultFS" /\ ret.r.err = Nil)
       => /\ ret'.r.probes = <<>>
          /\ ret'.r.fs = ret.r.fs
          /\ ret'.r.err = Nil]_vars

\* the place of a mount point in the order of the probes
ProbeRank(path) ==
    CASE path = DefaultRoot -> 1
      [] path = UnifiedRoot -> 2
      [] path = SystemdRoot -> 3
      [] OTHER -> 0

\* how often a path was probed
ProbeCount(probes, path) == Cardinality({i \in 1..Len(probes) : probes[i] = path})

\* C23: in Auto mode the probes come in a fixed order: the default root is
\* probed first and the siblings after it, the unified one before the systemd
\* one and each at most once; the unified sibling is probed only when the
\* default root reported tmpfs, the systemd sibling only after the unified
\* sibling was probed and did not report cgroup2; and the probe that decides
\* the result is the last one: nothing follows a failed or cgroup2 default
\* root, a cgroup2 unified sibling or the systemd sibling.
C23_ProbeOrder ==
    (ret.op = "cgUnifiedCached" /\ controlGroupMode = Auto) =>
        /\ Len(ret.r.probes) >= 1
        /\ ret.r.probes[1] = DefaultRoot
        /\ \A i \in 1..Len(ret.r.probes) : ProbeRank(ret.r.probes[i]) >= 1
        /\ \A i, j \in 1..Len(ret.r.probes) :
              i < j => ProbeRank(ret.r.probes[i]) <= ProbeRank(ret.r.probes[j])
        /\ ProbeCount(ret.r.probes, UnifiedRoot) <= 1
        /\ ProbeCount(ret.r.probes, SystemdRoot) <= 1
        /\ Probed(ret.r.probes, UnifiedRoot) => Reports(DefaultRoot, tmpFsMagic)
        /\ Probed(ret.r.probes, SystemdRoot) =>
              /\ Probed(ret.r.probes, UnifiedRoot)
              /\ ~Reports(UnifiedRoot, cgroup2SuperMagic)
        /\ (ProbeFails(DefaultRoot) \/ Reports(DefaultRoot, cgroup2SuperMagic)) =>
              ret.r.probes = <<DefaultRoot>>
        /\ (Reports(DefaultRoot, tmpFsMagic) /\ Reports(UnifiedRoot, cgroup2SuperMagic)) =>
              Last(ret.r.probes) = UnifiedRoot
        /\ (Reports(DefaultRoot, tmpFsMagic) /\ ~Reports(UnifiedRoot, cgroup2SuperMagic)) =>
              Last(ret.r.probes) = SystemdRoot

\* a unified sibling that is mounted as cgroup2 ends the probes, whatever the
\* systemd sibling is
C23_Witness ==
    /\ ret.op = "cgUnifiedCached"
    /\ controlGroupMode = Auto
    /\ Reports(DefaultRoot, tmpFsMagic)
    /\ Reports(UnifiedRoot, cgroup2SuperMagic)
    /\ Reports(SystemdRoot, cgroupSuperMagic)
    /\ Last(ret.r.probes) = UnifiedRoot
    /\ ~Probed(ret.r.probes, SystemdRoot)

----------------------------------------------------------------------------
(* Errors with a dynamic type, byte strings, strconv *)

\* &os.PathError{Op: op, Path: path, Err: errno}, what os.Open returns
PathError(op, path, errno) == <<"*os.PathError", op, path, errno>>

\* errors.Wrapf(cause, msg, arg): a new error value that holds the cause
Wrapf(cause, msg, arg) == <<msg, arg, cause>>

\* the type assertion  perr, ok := err.(*os.PathError); ok && perr.Op == "open"
IsOpenPathError(err) == Len(err) = 4 /\ err[1] = "*os.PathError" /\ err[2] = "open"

\* errors.Cause(err): the innermost error under the wrappers
RECURSIVE Cause(_)
Cause(err) == IF Len(err) = 3 THEN Cause(err[3]) ELSE err

RECURSIVE stringsSplitAcc(_, _, _, _)
stringsSplitAcc(s, sep, cur, acc) ==
    IF s = <<>> THEN Append(acc, cur)
    ELSE IF Head(s) = sep THEN stringsSplitAcc(Tail(s), sep, <<>>, Append(acc, cur))
    ELSE stringsSplitAcc(Tail(s), sep, Append(cur, Head(s)), acc)

\* strings.Split(s, sep) for a one-character separator
stringsSplit(s, sep) == stringsSplitAcc(s, sep, <<>>, <<>>)

DigitChars == <<"0", "1", "2", "3", "4", "5", "6", "7", "8", "9">>

IsDigit(c) == \E i \in 1..10 : DigitChars[i] = c

DigitVal(c) == (CHOOSE i \in 1..10 : DigitChars[i] = c) - 1

RECURSIVE TrimZeros(_)
\* the numeral without its leading zeros; "0" for zero
TrimZeros(s) ==
    IF Len(s) > 1 /\ Head(s) = "0" THEN TrimZeros(Tail(s)) ELSE s

\* math.MaxUint64 = 18446744073709551615 as a numeral
MaxUint64 ==
    <<"1", "8", "4", "4", "6", "7", "4", "4", "0", "7",
      "3", "7", "0", "9", "5", "5", "1", "6", "1", "5">>

RECURSIVE NumeralLess(_, _)
\* a < b for numerals without leading zeros of the same length
NumeralLess(a, b) ==
    IF a = <<>> THEN FALSE
    ELSE IF DigitVal(Head(a)) # DigitVal(Head(b)) THEN DigitVal(Head(a)) < DigitVal(Head(b))
    ELSE NumeralLess(Tail(a), Tail(b))

ExceedsUint64(n) ==
    \/ Len(n) > Len(MaxUint64)
    \/ Len(n) = Len(MaxUint64) /\ NumeralLess(MaxUint64, n)

\* strconv.ParseUint(s, 10, 64).  A uint64 is kept as its decimal numeral, since
\* the values do not fit the integers of the checker.
ParseUint(s) ==
    IF s = <<>> \/ (\E i \in 1..Len(s) : ~IsDigit(s[i]))
    THEN [val |-> <<"0">>, err |-> Errorf("strconv.ParseUint: invalid syntax", s)]
    ELSE IF ExceedsUint64(TrimZeros(s))
    THEN [val |-> MaxUint64, err |-> Errorf("strconv.ParseUint: value out of range", s)]
    ELSE [val |-> TrimZeros(s), err |-> Nil]

Zero == <<"0">>

NL == "\n"

CR == "\r"

\* dropCR of bufio
dropCR(line) == IF line # <<>> /\ Last(line) = CR THEN Front(line) ELSE line

\* the tokens bufio.Scanner yields with the default split function ScanLines:
\* the lines without their terminator; a last line need not be terminated
ScanLines(b) ==
    LET parts == stringsSplit(b, NL)
        kept  == IF Last(parts) = <<>> THEN Front(parts) ELSE parts
    IN  [i \in 1..Len(kept) |-> dropCR(kept[i])]

\* ReadFileNoStat(filename): os.Open, then read all of it
ReadFileNoStat(filesv, filename) ==
    IF filename \notin DOMAIN filesv
    THEN [b |-> <<>>, err |-> PathError("open", filename, "ENOENT")]
    ELSE IF filesv[filename].kind = "noperm"
    THEN [b |-> <<>>, err |-> PathError("open", filename, "EACCES")]
    ELSE [b |-> filesv[filename].b, err |-> Nil]

----------------------------------------------------------------------------
(* Unified cpu.stat reader *)

\* type CPUStat struct
CPUStat(user, sys) == [UserMicrosec |-> user, SystemMicrosec |-> sys]

\* a *CPUStat is Nil or a one-element sequence holding the record
Ref(x) == <<x>>

cpuStatResult_ZeroRecord(user, sys) ==
    [stat |-> Ref(CPUStat(user, sys)), err |-> Nil]

\* the end of NewCPUStat: nothing if both counters are zero, else the record
cpuStatResult(user, sys) ==
    IF user = Zero /\ sys = Zero
    THEN [stat |-> Nil, err |-> Nil]
    ELSE [stat |-> Ref(CPUStat(user, sys)), err |-> Nil]

RECURSIVE cpuStatLoop(_, _, _, _)
\* the loop  for scanner.Scan() { ... }  of NewCPUStat over the lines left
cpuStatLoop(lines, user, sys, cgPath) ==
    IF lines = <<>> THEN cpuStatResult(user, sys)
    ELSE LET text == Head(lines)
             vals == stringsSplit(text, " ")
         IN  IF Len(vals) # 2
             THEN [stat |-> Nil, err |-> Errorf("unable to parse contents of file", cgPath)]
             ELSE LET p == ParseUint(vals[2])
                  IN  IF p.err # Nil
                      THEN [stat |-> Nil,
                            err |-> Wrapf(p.err, "unable to parse as uint64", vals[2])]
                      ELSE cpuStatLoop(Tail(lines),
                                       IF vals[1] = Str("user_usec") THEN p.val ELSE user,
                                       IF vals[1] = Str("system_usec") THEN p.val ELSE sys,
                                       cgPath)

\* NewCPUStat from the first scanner.Scan() on: that call takes a line which
\* is never looked at, the loop reads the lines after it
cpuStatScan(lines, cgPath) ==
    IF lines = <<>>
    THEN [stat |-> Nil, err |-> Errorf("unable to scan file", cgPath)]
    ELSE cpuStatLoop(Tail(lines), Zero, Zero, cgPath)

\* NewCPUStat once ReadFileNoStat(cgPath) has returned f
cpuStatRead(f, cgPath) ==
    IF f.err # Nil
    THEN [stat |-> Nil, err |-> Wrapf(f.err, "unable to read file", cgPath)]
    ELSE cpuStatScan(ScanLines(f.b), cgPath)

\* NewCPUStat once fs.cgGetPath("cpu", cgSubpath, "cpu.stat") has returned g
cpuStatAt(g, filesv) ==
    IF g.err # Nil
    THEN [stat |-> Nil, err |-> Wrapf(g.err, "unable to get cpu controller path", <<>>)]
    ELSE cpuStatRead(ReadFileNoStat(filesv, g.path), g.path)

\* FS.NewCPUStat
NewCPUStat(h, filesv, cgSubpath) ==
    cpuStatAt(cgGetPath(h, Str("cpu"), cgSubpath, Str("cpu.stat")), filesv)

----------------------------------------------------------------------------
(* The cpu.stat reader over the files a cgroup can hold *)

MaxLines == 3

KV(key, val) == <<key, " ">> \o val

Five == <<"5">>

\* one more than math.MaxUint64
TooBig ==
    <<"1", "8", "4", "4", "6", "7", "4", "4", "0", "7",
      "3", "7", "0", "9", "5", "5", "1", "6", "1", "6">>

\* key value lines the kernel writes: the two counters read, and other keys
CounterLines == {KV(k, v) : k \in {"user_usec", "system_usec"}, v \in {Zero, Five}}

UnknownKeyLines == {KV("usage_usec", Five), KV("nr_periods", Zero), KV("nr_bursts", MaxUint64)}

WellFormedLines == CounterLines \cup UnknownKeyLines

\* one token, three tokens, not a number, out of range, an empty line
MalformedLines ==
    { <<"nr_periods">>,
      <<"user_usec", " ", "5", " ", "5">>,
      KV("system_usec", <<"x">>),
      KV("user_usec", TooBig),
      <<>> }

CpuStatLines == WellFormedLines \cup MalformedLines

SeqsUpTo(S, n) == UNION {[1..k -> S] : k \in 0..n}

RECURSIVE Terminated(_)
\* the bytes of a file whose lines all end with a newline
Terminated(lines) ==
    IF lines = <<>> THEN <<>> ELSE Head(lines) \o <<NL>> \o Terminated(Tail(lines))

\* the same file without the newline after its last line
Unterminated(lines) ==
    IF lines = <<>> \/ Last(lines) = <<>> THEN Terminated(lines) ELSE Front(Terminated(lines))

CpuStatContents ==
    {Terminated(lines) : lines \in SeqsUpTo(CpuStatLines, MaxLines)}
        \cup {Unterminated(lines) : lines \in SeqsUpTo(CpuStatLines, MaxLines)}

RegularFile(b) == [kind |-> "file", b |-> b]

NoPermFile == [kind |-> "noperm", b |-> <<>>]

\* fixtures/cgroup-unified/cpu.stat
FixtureCpuStat == testFixturesUnified \o <<Sep, "cpu.stat">>

\* getHybridFixtures
HybridFixtures == FS(MountModeHybrid, testFixturesUnified, testFixturesLegacy)

InitCpuStat ==
    /\ controlGroupMode = Auto
    /\ mountPointPrefix = <<>>
    /\ statfsFunc = <<>>
    /\ dirs = <<>>
    /\ fs = HybridFixtures
    /\ ret = NoRet
    /\ files \in {<<>>} \cup {FixtureCpuStat :> NoPermFile}
                 \cup {FixtureCpuStat :> RegularFile(b) : b \in CpuStatContents}
    /\ dbus = <<>>
    /\ flags = <<>>
    /\ NoCollect

Call_NewCPUStat(cgSubpath) ==
    /\ ret' = [op |-> "NewCPUStat", cgSubpath |-> cgSubpath,
               r |-> NewCPUStat(fs, files, cgSubpath)]
    /\ UNCHANGED <<controlGroupMode, mountPointPrefix, statfsFunc, dirs, fs>>
    /\ UNCHANGED <<hostVars, collectVars>>

NextCpuStat ==
    \E cgSubpath \in {<<Sep>>, <<"foobar">>} : Call_NewCPUStat(cgSubpath)

SpecCpuStat == InitCpuStat /\ [][NextCpuStat]_vars

----------------------------------------------------------------------------
(* Properties of the cpu.stat reader.  The file does not change under       *)
(* SpecCpuStat, so a state relates the file to what the last call returned. *)

\* the last call read fixtures/cgroup-unified/cpu.stat and the file was there
ReadCpuStat ==
    /\ ret.op = "NewCPUStat"
    /\ ret.cgSubpath = <<Sep>>
    /\ FixtureCpuStat \in DOMAIN files
    /\ files[FixtureCpuStat].kind = "file"

\* the lines of the file: what line splitting finds, provided these lines
\* written out one after the other are the bytes of the file
TheLines == ScanLines(files[FixtureCpuStat].b)

HasLines(lines) ==
    files[FixtureCpuStat].b \in {Terminated(lines), Unterminated(lines)}

NoData(r) == r.stat = Nil /\ r.err = Nil

\* C13: a cpu.stat file whose lines are all well formed, that has a user_usec
\* line and a system_usec line, and in which every such line carries the value
\* 0, gives the no-data result (no record, no error) and not a record of zeros.
C13_ZeroIsNoData ==
    (/\ ReadCpuStat
     /\ HasLines(TheLines)
     /\ \A i \in 1..Len(TheLines) : TheLines[i] \in WellFormedLines
     /\ \E i \in 1..Len(TheLines) : TheLines[i] = KV("user_usec", Zero)
     /\ \E i \in 1..Len(TheLines) : TheLines[i] = KV("system_usec", Zero)
     /\ \A i \in 1..Len(TheLines) :
           TheLines[i] \notin {KV("user_usec", Five), KV("system_usec", Five)})
    => NoData(ret.r)

C13_Witness ==
    /\ ReadCpuStat
    /\ HasLines(<<KV("nr_periods", Zero), KV("user_usec", Zero), KV("system_usec", Zero)>>)
    /\ NoData(ret.r)

\* C14: a cpu.stat file that is there and readable, whose lines are all well
\* formed and none of which is a user_usec or system_usec line (a file with no
\* line at all included), gives the no-data result and not an error.
C14_NoCounterIsNoData ==
    (/\ ReadCpuStat
     /\ HasLines(TheLines)
     /\ \A i \in 1..Len(TheLines) : TheLines[i] \in UnknownKeyLines)
    => NoData(ret.r)

\* C15: a cpu.stat file with a line that does not split into exactly two
\* space-separated tokens, or whose second token is not an unsigned 64-bit
\* number, gives a parse error: no such line is passed over.
C15_MalformedIsError ==
    (/\ ReadCpuStat
     /\ HasLines(TheLines)
     /\ \E i \in 1..Len(TheLines) : TheLines[i] \in MalformedLines)
    => ret.r.err # Nil

InsertAt(lines, i, line) == SubSeq(lines, 1, i - 1) \o <<line>> \o SubSeq(lines, i, Len(lines))

\* C16: putting a well-formed line with an unknown key into a cpu.stat file, at
\* any position, does not change what NewCPUStat returns for the file.
C16_UnknownKeyIgnored ==
    (ReadCpuStat /\ HasLines(TheLines))
    => \A i \in 1..(Len(TheLines) + 1), line \in UnknownKeyLines :
          NewCPUStat(fs, FixtureCpuStat :> RegularFile(Terminated(InsertAt(TheLines, i, line))),
                     <<Sep>>) = ret.r

----------------------------------------------------------------------------
(* Legacy cpuacct.usage_all reader (cpuacct.go is not among the sources:    *)
(* modelled after the description of the CPU-accounting reader)             *)

RECURSIVE Uint64Of(_, _)
\* the number a numeral stands for; the files of this model hold numerals
\* small enough for the sums of a few cores to stay far below 2^64
Uint64Of(numeral, acc) ==
    IF numeral = <<>> THEN acc
    ELSE Uint64Of(Tail(numeral), acc * 10 + DigitVal(Head(numeral)))

\* type CPUUsage struct: one core of cpuacct.usage_all
CPUUsage(cpu, user, sys) ==
    [CPUId |-> cpu, UsageUserNanosecs |-> user, UsageSystemNanosecs |-> sys]

\* type CPUAcct struct
CPUAcct(cpus) == [CPUs |-> cpus]

RECURSIVE UsageUserNanosecs(_)
\* CPUAcct.UsageUserNanosecs: the cores' user time added up
UsageUserNanosecs(cpus) ==
    IF cpus = <<>> THEN 0 ELSE Head(cpus).UsageUserNanosecs + UsageUserNanosecs(Tail(cpus))

RECURSIVE UsageSystemNanosecs(_)
\* CPUAcct.UsageSystemNanosecs
UsageSystemNanosecs(cpus) ==
    IF cpus = <<>> THEN 0 ELSE Head(cpus).UsageSystemNanosecs + UsageSystemNanosecs(Tail(cpus))

\* CPUAcct.UsageAllNanosecs
UsageAllNanosecs(cpus) == UsageUserNanosecs(cpus) + UsageSystemNanosecs(cpus)

\* a data line whose three fields are numbers adds a core
cpuAcctCore(cpu, user, sys, line) ==
    IF cpu.err # Nil \/ user.err # Nil \/ sys.err # Nil
    THEN [cpus |-> <<>>, err |-> Errorf("unable to parse as uint64", line)]
    ELSE [cpus |-> <<CPUUsage(Uint64Of(cpu.val, 0), Uint64Of(user.val, 0),
                              Uint64Of(sys.val, 0))>>,
          err |-> Nil]

\* one data line: cpu, user nanoseconds, system nanoseconds
cpuAcctLine(fields, line, cgPath) ==
    IF Len(fields) # 3
    THEN [cpus |-> <<>>, err |-> Errorf("unable to parse contents of file", cgPath)]
    ELSE cpuAcctCore(ParseUint(fields[1]), ParseUint(fields[2]), ParseUint(fields[3]), line)

RECURSIVE cpuAcctRows_DropsLastCore(_, _, _)
cpuAcctRows_DropsLastCore(lines, cpus, cgPath) ==
    IF Len(lines) <= 1 THEN [acct |-> Ref(CPUAcct(cpus)), err |-> Nil]
    ELSE LET c == cpuAcctLine(stringsSplit(Head(lines), " "), Head(lines), cgPath)
         IN  IF c.err # Nil THEN [acct |-> Nil, err |-> c.err]
             ELSE cpuAcctRows_DropsLastCore(Tail(lines), cpus \o c.cpus, cgPath)

RECURSIVE cpuAcctRows(_, _, _)
\* one data line per core
cpuAcctRows(lines, cpus, cgPath) ==
    IF lines = <<>> THEN [acct |-> Ref(CPUAcct(cpus)), err |-> Nil]
    ELSE LET c == cpuAcctLine(stringsSplit(Head(lines), " "), Head(lines), cgPath)
         IN  IF c.err # Nil THEN [acct |-> Nil, err |-> c.err]
             ELSE cpuAcctRows(Tail(lines), cpus \o c.cpus, cgPath)

\* a header line, then the cores
cpuAcctScan(lines, cgPath) ==
    IF lines = <<>>
    THEN [acct |-> Nil, err |-> Errorf("unable to scan file", cgPath)]
    ELSE cpuAcctRows(Tail(lines), <<>>, cgPath)

\* a file that is not there is reported with the error of the open itself
cpuAcctRead(f, cgPath) ==
    IF f.err # Nil THEN [acct |-> Nil, err |-> f.err] ELSE cpuAcctScan(ScanLines(f.b), cgPath)

cpuAcctAt(g, filesv) ==
    IF g.err # Nil
    THEN [acct |-> Nil, err |-> Wrapf(g.err, "unable to get cpu controller path", <<>>)]
    ELSE cpuAcctRead(ReadFileNoStat(filesv, g.path), g.path)

\* FS.NewCPUAcct
NewCPUAcct(h, filesv, cgSubpath) ==
    cpuAcctAt(cgGetPath(h, Str("cpu"), cgSubpath, Str("cpuacct.usage_all")), filesv)

----------------------------------------------------------------------------
(* The cpuacct.usage_all reader over the files a legacy cgroup can hold *)

MaxCpus == 4

RECURSIVE Numeral(_)
\* strconv.FormatUint(n, 10), the way the kernel prints a counter
Numeral(n) ==
    IF n < 10 THEN <<DigitChars[n + 1]>>
    ELSE Numeral(n \div 10) \o <<DigitChars[(n % 10) + 1]>>

AcctRow(kind, user, sys) == [kind |-> kind, user |-> user, sys |-> sys]

\* what a core has used, in nanoseconds of user and of system time
CoreRows == {AcctRow("core", 0, 0), AcctRow("core", 7, 35), AcctRow("core", 1200, 0)}

\* the rows of a file: a core's two counters, or a row that is out of shape
AcctRows == CoreRows \cup {AcctRow("short", 0, 0), AcctRow("text", 0, 0)}

\* the line of core number cpu
AcctLine(cpu, row) ==
    CASE row.kind = "core" ->
            Numeral(cpu) \o <<" ">> \o Numeral(row.user) \o <<" ">> \o Numeral(row.sys)
      [] row.kind = "short" -> Numeral(cpu) \o <<" ">> \o Numeral(row.user)
      [] OTHER -> Numeral(cpu) \o <<" ", "x", " ">> \o Numeral(row.sys)

AcctHeader == <<"cpu", " ", "user", " ", "system">>

\* cpuacct.usage_all as the kernel writes it for these cores
AcctFile(rows) ==
    Terminated(<<AcctHeader>> \o [i \in 1..Len(rows) |-> AcctLine(i - 1, rows[i])])

\* fixtures/cgroup-legacy/cpu/cpuacct.usage_all
FixtureCpuAcct == testFixturesLegacy \o <<Sep, "cpu", Sep, "cpuacct.usage_all">>

\* getLegacyFixtures
LegacyFixtures == FS(MountModeLegacy, <<>>, testFixturesLegacy)

InitCpuAcct ==
    /\ controlGroupMode = Auto
    /\ mountPointPrefix = <<>>
    /\ statfsFunc = <<>>
    /\ dirs = <<>>
    /\ fs = LegacyFixtures
    /\ ret = NoRet
    /\ files \in {<<>>} \cup {FixtureCpuAcct :> RegularFile(<<>>)}
                 \cup {FixtureCpuAcct :> RegularFile(AcctFile(rows)) :
                           rows \in SeqsUpTo(AcctRows, MaxCpus)}
    /\ dbus = <<>>
    /\ flags = <<>>
    /\ NoCollect

Call_NewCPUAcct(cgSubpath) ==
    /\ ret' = [op |-> "NewCPUAcct", cgSubpath |-> cgSubpath,
               r |-> NewCPUAcct(fs, files, cgSubpath)]
    /\ UNCHANGED <<controlGroupMode, mountPointPrefix, statfsFunc, dirs, fs>>
    /\ UNCHANGED <<hostVars, collectVars>>

NextCpuAcct ==
    \E cgSubpath \in {<<Sep>>, <<"foobar">>} : Call_NewCPUAcct(cgSubpath)

SpecCpuAcct == InitCpuAcct /\ [][NextCpuAcct]_vars

----------------------------------------------------------------------------
(* Properties of the cpuacct.usage_all reader *)

RECURSIVE SumOf(_, _)
\* the sum of field f over the rows
SumOf(rows, f) == IF rows = <<>> THEN 0 ELSE Head(rows)[f] + SumOf(Tail(rows), f)

\* C19: for a well-formed cpuacct.usage_all, NewCPUAcct returns one entry per
\* data row, UsageUserNanosecs is the sum of the rows' user values,
\* UsageSystemNanosecs the sum of their system values and UsageAllNanosecs the
\* sum of the two; for a cgroup whose file is not there it returns an error.
C19_AcctSums ==
    /\ (ret.op = "NewCPUAcct" /\ ret.cgSubpath = <<Sep>> /\ FixtureCpuAcct \in DOMAIN files)
          => \A rows \in SeqsUpTo(CoreRows, MaxCpus) :
                files[FixtureCpuAcct].b = AcctFile(rows)
                => /\ ret.r.err = Nil
                   /\ ret.r.acct # Nil
                   /\ Len(ret.r.acct[1].CPUs) = Len(rows)
                   /\ UsageUserNanosecs(ret.r.acct[1].CPUs) = SumOf(rows, "user")
                   /\ UsageSystemNanosecs(ret.r.acct[1].CPUs) = SumOf(rows, "sys")
                   /\ UsageAllNanosecs(ret.r.acct[1].CPUs)
                         = SumOf(rows, "user") + SumOf(rows, "sys")
    /\ (ret.op = "NewCPUAcct" /\ ret.cgSubpath = <<"foobar">>)
          => (ret.r.err # Nil /\ ret.r.acct = Nil)

\* the fixture of TestNewCPUAcct in shape: four cores, user and system time used
C19_Witness ==
    /\ ret.op = "NewCPUAcct"
    /\ ret.cgSubpath = <<Sep>>
    /\ FixtureCpuAcct \in DOMAIN files
    /\ files[FixtureCpuAcct].b =
          AcctFile(<<AcctRow("core", 1200, 0), AcctRow("core", 7, 35),
                     AcctRow("core", 0, 0), AcctRow("core", 7, 35)>>)
    /\ ret.r.err = Nil
    /\ Len(ret.r.acct[1].CPUs) = 4
    /\ UsageUserNanosecs(ret.r.acct[1].CPUs) = 1214
    /\ UsageSystemNanosecs(ret.r.acct[1].CPUs) = 70
    /\ UsageAllNanosecs(ret.r.acct[1].CPUs) = 1284

----------------------------------------------------------------------------
(* memory.stat reader (memory.go is not among the sources: modelled after   *)
(* the description of the memory-stat reader and the fields of TestMemStat) *)

\* the keys of memory.stat the reader knows, each with the field of MemStat it fills
MemStatKeys ==
    << <<"cache", "CacheBytes">>, <<"rss", "RssBytes">>, <<"rss_huge", "RssHugeBytes">>,
       <<"shmem", "Shmem">>, <<"mapped_file", "MappedFileBytes">>, <<"dirty", "DirtyBytes">>,
       <<"writeback", "WritebackBytes">>, <<"swap", "SwapBytes">>, <<"pgpgin", "PgPgIn">>,
       <<"pgpgout", "PgPgOut">>, <<"pgfault", "PgFault">>, <<"pgmajfault", "PgMajFault">>,
       <<"inactive_anon", "InactiveAnonBytes">>, <<"active_anon", "ActiveAnonBytes">>,
       <<"inactive_file", "InactiveFileBytes">>, <<"active_file", "ActiveFileBytes">>,
       <<"unevictable", "UnevictableBytes">>,
       <<"hierarchical_memory_limit", "HierarchialMemoryLimitBytes">>,
       <<"hierarchical_memsw_limit", "HierarchialMemswLimitBytes">>,
       <<"total_cache", "TotalCacheBytes">>, <<"total_rss", "TotalRssBytes">>,
       <<"total_rss_huge", "TotalRssHugeBytes">>, <<"total_shmem", "TotalShmemBytes">>,
       <<"total_mapped_file", "TotalMappedFileBytes">>, <<"total_dirty", "TotalDirtyBytes">>,
       <<"total_writeback", "TotalWritebackBytes">>, <<"total_swap", "TotalSwapBytes">>,
       <<"total_pgpgin", "TotalPgPgIn">>, <<"total_pgpgout", "TotalPgPgOut">>,
       <<"total_pgfault", "TotalPgFault">>, <<"total_pgmajfault", "TotalPgMajFault">>,
       <<"total_inactive_anon", "TotalInactiveAnonBytes">>,
       <<"total_active_anon", "TotalActiveAnonBytes">>,
       <<"total_inactive_file", "TotalInactiveFileBytes">>,
       <<"total_active_file", "TotalActiveFileBytes">>,
       <<"total_unevictable", "TotalUnevictableBytes">> >>

MemStatFields == {MemStatKeys[i][2] : i \in 1..Len(MemStatKeys)}

\* MemStat{}: every counter zero
ZeroMemStat == [f \in MemStatFields |-> Zero]

IsMemStatKey(key) == \E i \in 1..Len(MemStatKeys) : <<MemStatKeys[i][1]>> = key

MemStatField(key) ==
    MemStatKeys[CHOOSE i \in 1..Len(MemStatKeys) : <<MemStatKeys[i][1]>> = key][2]

memStatLine_UnknownKeyIsError(vals, p, stat, cgPath) ==
    IF Len(vals) # 2 \/ ~IsMemStatKey(vals[1])
    THEN [stat |-> ZeroMemStat, err |-> Errorf("unable to parse contents of file", cgPath)]
    ELSE IF p.err # Nil
    THEN [stat |-> ZeroMemStat, err |-> Wrapf(p.err, "unable to parse as uint64", vals)]
    ELSE [stat |-> [stat EXCEPT ![MemStatField(vals[1])] = p.val], err |-> Nil]

\* one line of memory.stat: a key and a value, p the value as a number
memStatLine(vals, p, stat, cgPath) ==
    IF Len(vals) # 2
    THEN [stat |-> ZeroMemStat, err |-> Errorf("unable to parse contents of file", cgPath)]
    ELSE IF p.err # Nil
    THEN [stat |-> ZeroMemStat, err |-> Wrapf(p.err, "unable to parse as uint64", vals)]
    ELSE IF IsMemStatKey(vals[1])
    THEN [stat |-> [stat EXCEPT ![MemStatField(vals[1])] = p.val], err |-> Nil]
    ELSE [stat |-> stat, err |-> Nil]

\* the second token of a line, if it has one
Second(vals) == IF Len(vals) >= 2 THEN vals[2] ELSE <<>>

RECURSIVE memStatLoop(_, _, _)
\* the lines of memory.stat one after the other
memStatLoop(lines, stat, cgPath) ==
    IF lines = <<>> THEN [stat |-> stat, err |-> Nil]
    ELSE LET m == memStatLine(stringsSplit(Head(lines), " "),
                              ParseUint(Second(stringsSplit(Head(lines), " "))), stat, cgPath)
         IN  IF m.err # Nil THEN m ELSE memStatLoop(Tail(lines), m.stat, cgPath)

\* a file that is not there is reported with the error of the open itself
memStatRead(f, cgPath) ==
    IF f.err # Nil
    THEN [stat |-> ZeroMemStat, err |-> f.err]
    ELSE memStatLoop(ScanLines(f.b), ZeroMemStat, cgPath)

memStatAt(g, filesv) ==
    IF g.err # Nil
    THEN [stat |-> ZeroMemStat,
          err |-> Wrapf(g.err, "unable to get memory controller path", <<>>)]
    ELSE memStatRead(ReadFileNoStat(filesv, g.path), g.path)

\* FS.NewMemStat
FS_NewMemStat(h, filesv, cgSubpath) ==
    memStatAt(cgGetPath(h, Str("memory"), cgSubpath, Str("memory.stat")), filesv)

----------------------------------------------------------------------------
(* The memory.stat reader over the files a cgroup can hold *)

RecognizedLines ==
    {KV("cache", Five), KV("cache", Zero), KV("rss", Five), KV("total_unevictable", MaxUint64)}

UnrecognizedLines == {KV("foo", Five), KV("workingset_refault", Zero)}

MalformedMemLines == {<<"cache">>, KV("rss", <<"x">>), KV("dirty", TooBig)}

MemStatLines == RecognizedLines \cup UnrecognizedLines \cup MalformedMemLines

\* fixtures/cgroup-legacy/memory/memory.stat
FixtureMemStat == testFixturesLegacy \o <<Sep, "memory", Sep, "memory.stat">>

InitMemStat ==
    /\ controlGroupMode = Auto
    /\ mountPointPrefix = <<>>
    /\ statfsFunc = <<>>
    /\ dirs = <<>>
    /\ fs = HybridFixtures
    /\ ret = NoRet
    /\ files \in {<<>>} \cup {FixtureMemStat :> RegularFile(Terminated(lines)) :
                                  lines \in SeqsUpTo(MemStatLines, MaxLines)}
    /\ dbus = <<>>
    /\ flags = <<>>
    /\ NoCollect

Call_FS_NewMemStat(cgSubpath) ==
    /\ ret' = [op |-> "FS.NewMemStat", cgSubpath |-> cgSubpath,
               r |-> FS_NewMemStat(fs, files, cgSubpath)]
    /\ UNCHANGED <<controlGroupMode, mountPointPrefix, statfsFunc, dirs, fs>>
    /\ UNCHANGED <<hostVars, collectVars>>

NextMemStat ==
    \E cgSubpath \in {<<Sep>>, <<"foobar">>} : Call_FS_NewMemStat(cgSubpath)

SpecMemStat == InitMemStat /\ [][NextMemStat]_vars

----------------------------------------------------------------------------
(* Properties of the memory.stat reader *)

ReadMemStat ==
    /\ ret.op = "FS.NewMemStat"
    /\ ret.cgSubpath = <<Sep>>
    /\ FixtureMemStat \in DOMAIN files

TheMemLines == ScanLines(files[FixtureMemStat].b)

\* the value of the last line "key value" among the lines, 0 if there is none
LastValue(lines, key) ==
    IF \E i \in 1..Len(lines), v \in {Zero, Five, MaxUint64} : lines[i] = KV(key, v)
    THEN LET i == CHOOSE j \in 1..Len(lines) :
                      /\ \E v \in {Zero, Five, MaxUint64} : lines[j] = KV(key, v)
                      /\ \A k \in (j + 1)..Len(lines) :
                            \A v \in {Zero, Five, MaxUint64} : lines[k] # KV(key, v)
         IN  SubSeq(lines[i], 3, Len(lines[i]))
    ELSE Zero

\* C20: reading a memory.stat whose lines are well formed fills the fields of
\* the recognized keys with their values and passes over the unrecognized
\* keys; a further line with an unrecognized key, at any position of any file,
\* changes neither the record nor whether and which error is returned.
C20_UnrecognizedIgnored ==
    (ReadMemStat /\ files[FixtureMemStat].b = Terminated(TheMemLines))
    => /\ (\A i \in 1..Len(TheMemLines) :
              TheMemLines[i] \in RecognizedLines \cup UnrecognizedLines)
          => /\ ret.r.err = Nil
             /\ ret.r.stat.CacheBytes = LastValue(TheMemLines, "cache")
             /\ ret.r.stat.RssBytes = LastValue(TheMemLines, "rss")
             /\ ret.r.stat.TotalUnevictableBytes = LastValue(TheMemLines, "total_unevictable")
             /\ \A f \in MemStatFields \ {"CacheBytes", "RssBytes", "TotalUnevictableBytes"} :
                   ret.r.stat[f] = Zero
       /\ \A i \in 1..(Len(TheMemLines) + 1), line \in UnrecognizedLines :
             FS_NewMemStat(fs,
                           FixtureMemStat :>
                               RegularFile(Terminated(InsertAt(TheMemLines, i, line))),
                           <<Sep>>) = ret.r

\* an unrecognized key between two recognized ones
C20_Witness ==
    /\ ReadMemStat
    /\ files[FixtureMemStat].b = Terminated(<<KV("cache", Five), KV("foo", Five), KV("rss", Five)>>)
    /\ ret.r.err = Nil
    /\ ret.r.stat.CacheBytes = Five
    /\ ret.r.stat.RssBytes = Five

----------------------------------------------------------------------------
(* Usage facade and the collector's control-group metrics *)

\* a non-nil TotalCPUUsage: the dynamic type and the record the pointer leads to
Iface(type, ptr) == <<type, ptr[1]>>

\* the log of readers a call of NewCPUUsage went through
NoReader == <<>>

cpuStatUsage_ZeroOnNoData(r) ==
    IF r.stat = Nil /\ r.err # Nil
    THEN [usage |-> Nil, err |-> r.err, readers |-> <<"NewCPUStat">>]
    ELSE IF r.stat = Nil
    THEN [usage |-> Iface("*CPUStat", Ref(CPUStat(Zero, Zero))), err |-> Nil,
          readers |-> <<"NewCPUStat">>]
    ELSE [usage |-> Iface("*CPUStat", r.stat), err |-> Nil, readers |-> <<"NewCPUStat">>]

\* NewCPUUsage after  ret, err2 := fs.NewCPUStat(cgSubpath)
cpuStatUsage(r) ==
    IF r.stat = Nil
    THEN [usage |-> Nil, err |-> r.err, readers |-> <<"NewCPUStat">>]
    ELSE [usage |-> Iface("*CPUStat", r.stat), err |-> Nil, readers |-> <<"NewCPUStat">>]

\* NewCPUUsage after  ret, err2 := fs.NewCPUAcct(cgSubpath)
cpuAcctUsage(r) ==
    IF r.acct = Nil
    THEN [usage |-> Nil, err |-> r.err, readers |-> <<"NewCPUAcct">>]
    ELSE [usage |-> Iface("*CPUAcct", r.acct), err |-> Nil, readers |-> <<"NewCPUAcct">>]

cpuUsageOn_HybridReadsAcct(d, filesv, cgSubpath) ==
    IF d.err # Nil
    THEN [usage |-> Nil, err |-> d.err, readers |-> NoReader]
    ELSE IF d.fs.cgroupUnified = MountModeUnified
    THEN cpuStatUsage(NewCPUStat(d.fs, filesv, cgSubpath))
    ELSE cpuAcctUsage(NewCPUAcct(d.fs, filesv, cgSubpath))

\* NewCPUUsage after  fs, err := NewDefaultFS(controlGroupMode, mountPointPrefix)
cpuUsageOn(d, filesv, cgSubpath) ==
    IF d.err # Nil
    THEN [usage |-> Nil, err |-> d.err, readers |-> NoReader]
    ELSE IF d.fs.cgroupUnified = MountModeUnified \/ d.fs.cgroupUnified = MountModeHybrid
    THEN cpuStatUsage(NewCPUStat(d.fs, filesv, cgSubpath))
    ELSE cpuAcctUsage(NewCPUAcct(d.fs, filesv, cgSubpath))

\* NewCPUUsage(controlGroupMode, mountPointPrefix, cgSubpath)
NewCPUUsage(mode, prefix, statfn, dirsv, filesv, cgSubpath) ==
    cpuUsageOn(NewDefaultFS(mode, prefix, statfn, dirsv), filesv, cgSubpath)

\* TotalCPUUsage.UserSeconds: the counter with the unit it is divided by
UserSeconds(usage) ==
    IF usage[1] = "*CPUStat" THEN <<"usec", usage[2].UserMicrosec>>
    ELSE <<"nsec", UsageUserNanosecs(usage[2].CPUs)>>

\* TotalCPUUsage.SystemSeconds
SystemSeconds(usage) ==
    IF usage[1] = "*CPUStat" THEN <<"usec", usage[2].SystemMicrosec>>
    ELSE <<"nsec", UsageSystemNanosecs(usage[2].CPUs)>>

\* prometheus.MustNewConstMetric(desc, _, value, unit.Name, labels...)
Metric(desc, value, unit, label) ==
    [desc |-> desc, value |-> value, unit |-> unit, label |-> label]

errControlGroupReadMsg == "failed to read %s from control group"

\* collectUnitCPUUsageMetrics after  cpuUsage, err := cgroup.NewCPUUsage(...)
cpuUsageMetrics(cpuUsage, unit) ==
    IF cpuUsage.err # Nil
    THEN IF IsOpenPathError(cpuUsage.err)
         THEN [err |-> Nil, sent |-> <<>>]
         ELSE [err |-> Wrapf(cpuUsage.err, errControlGroupReadMsg, "CPU usage"),
               sent |-> <<>>]
    ELSE IF cpuUsage.usage # Nil
    THEN [err |-> Nil,
          sent |-> <<Metric("unitCPUTotal", UserSeconds(cpuUsage.usage), unit, "user"),
                     Metric("unitCPUTotal", SystemSeconds(cpuUsage.usage), unit, "system")>>]
    ELSE [err |-> Nil, sent |-> <<>>]

\* Collector.collectUnitCPUUsageMetrics: the error returned and the samples sent
collectUnitCPUUsageMetrics(mode, prefix, statfn, dirsv, filesv, cgSubpath, unit) ==
    cpuUsageMetrics(NewCPUUsage(mode, prefix, statfn, dirsv, filesv, cgSubpath), unit)

\* NewMemStat after  fs, err := NewDefaultFS(controlGroupMode, mountPointPrefix)
memStatOn(d, filesv, cgSubpath) ==
    IF d.err # Nil
    THEN [stat |-> ZeroMemStat, err |-> d.err]
    ELSE FS_NewMemStat(d.fs, filesv, cgSubpath)

\* NewMemStat(controlGroupMode, mountPointPrefix, cgSubpath) of memory.go
NewMemStat(mode, prefix, statfn, dirsv, filesv, cgSubpath) ==
    memStatOn(NewDefaultFS(mode, prefix, statfn, dirsv), filesv, cgSubpath)

\* collectUnitMemMetrics after  memStat, err := cgroup.NewMemStat(...)
memMetrics(memStat, unit) ==
    IF memStat.err # Nil
    THEN IF IsOpenPathError(memStat.err)
         THEN [err |-> Nil, sent |-> <<>>]
         ELSE [err |-> Wrapf(memStat.err, errControlGroupReadMsg, "Memory stat"),
               sent |-> <<>>]
    ELSE [err |-> Nil,
          sent |-> <<Metric("unitMemCache", memStat.stat.CacheBytes, unit, ""),
                     Metric("unitMemRss", memStat.stat.RssBytes, unit, ""),
                     Metric("unitMemDirty", memStat.stat.DirtyBytes, unit, ""),
                     Metric("unitMemShmem", memStat.stat.Shmem, unit, "")>>]

\* Collector.collectUnitMemMetrics
collectUnitMemMetrics(mode, prefix, statfn, dirsv, filesv, cgSubpath, unit) ==
    memMetrics(NewMemStat(mode, prefix, statfn, dirsv, filesv, cgSubpath), unit)

----------------------------------------------------------------------------
(* The collector reading one unit's control group on a host *)

\* the mount tables of TestCgUnifiedCached, at the paths the prefix gives
StatfsTable(prefix, d, u, s) ==
    [p \in MountPaths(prefix) |->
        CASE p = prefixMountPoint(prefix, DefaultMountPoint) -> d
          [] p = prefixMountPoint(prefix, UnifiedMountPoint) -> u
          [] OTHER -> s]

HostMounts(prefix) ==
    { StatfsTable(prefix, StatFail, StatFail, StatFail),
      StatfsTable(prefix, StatOk(UnknownFsType), StatOk(UnknownFsType), StatOk(UnknownFsType)),
      StatfsTable(prefix, StatOk(tmpFsMagic), StatFail, StatOk(cgroupSuperMagic)),
      StatfsTable(prefix, StatOk(tmpFsMagic), StatOk(tmpFsMagic), StatOk(cgroup2SuperMagic)),
      StatfsTable(prefix, StatOk(tmpFsMagic), StatOk(cgroup2SuperMagic), StatOk(cgroupSuperMagic)),
      StatfsTable(prefix, StatOk(tmpFsMagic), StatFail, StatFail),
      StatfsTable(prefix, StatOk(tmpFsMagic), StatFail, StatOk(UnknownFsType)),
      StatfsTable(prefix, StatOk(cgroup2SuperMagic), StatFail, StatFail) }

\* the control group of the unit collected
UnitSubpath == <<Sep, "system.slice", Sep, "a.service">>

UnitName == "a.service"

\* where a unit's cpu.stat can be: under the default root or the unified one
CpuStatPaths(prefix) ==
    {filepathJoin(<<prefixMountPoint(prefix, root), UnitSubpath, Str("cpu.stat")>>) :
        root \in {DefaultMountPoint, UnifiedMountPoint}}

\* where its cpuacct.usage_all can be
CpuAcctPaths(prefix) ==
    {filepathJoin(<<prefixMountPoint(prefix, root), Str("cpu"), UnitSubpath,
                    Str("cpuacct.usage_all")>>) :
        root \in {DefaultMountPoint, SystemdMountPoint}}

\* where its memory.stat can be
MemStatPaths(prefix) ==
    {filepathJoin(<<prefixMountPoint(prefix, root), Str("memory"), UnitSubpath,
                    Str("memory.stat")>>) :
        root \in {DefaultMountPoint, SystemdMountPoint}}
      \cup {filepathJoin(<<prefixMountPoint(prefix, DefaultMountPoint), UnitSubpath,
                           Str("memory.stat")>>),
            filepathJoin(<<Str("memory"), UnitSubpath, Str("memory.stat")>>)}

\* a cpu.stat of a unit that has run, of one that has not, and a broken one
CpuStatKinds ==
    { Terminated(<<KV("usage_usec", Five), KV("user_usec", Five), KV("system_usec", Five)>>),
      Terminated(<<KV("usage_usec", Zero), KV("user_usec", Zero), KV("system_usec", Zero)>>),
      Terminated(<<KV("usage_usec", Five), KV("user_usec", <<"x">>)>>) }

CpuAcctKinds == {AcctFile(<<AcctRow("core", 7, 35), AcctRow("core", 1200, 0)>>)}

MemStatKinds == {Terminated(<<KV("cache", Five), KV("foo", Five), KV("rss", Five)>>)}

\* the files of a kind are all there, with one content, or none of them is
FilesAt(paths, contents) ==
    {[p \in {} |-> RegularFile(<<>>)]} \cup {[p \in paths |-> RegularFile(b)] : b \in contents}

\* the union of three file tables
Merge(f, g, h) ==
    [p \in DOMAIN f \cup DOMAIN g \cup DOMAIN h |->
        IF p \in DOMAIN f THEN f[p] ELSE IF p \in DOMAIN g THEN g[p] ELSE h[p]]

HostFiles(prefix) ==
    {Merge(f, g, h) : f \in FilesAt(CpuStatPaths(prefix), CpuStatKinds),
                      g \in FilesAt(CpuAcctPaths(prefix), CpuAcctKinds),
                      h \in FilesAt(MemStatPaths(prefix), MemStatKinds)}

InitUsage ==
    /\ controlGroupMode \in ControlGroupModes
    /\ mountPointPrefix \in MountPointPrefixes
    /\ statfsFunc \in HostMounts(mountPointPrefix)
    /\ dirs \in {[p \in MountPaths(mountPointPrefix) |-> k] : k \in {"dir", "missing"}}
    /\ fs = ZeroFS
    /\ ret = NoRet
    /\ files \in HostFiles(mountPointPrefix)
    /\ dbus = <<>>
    /\ flags = <<>>
    /\ NoCollect

Call_NewCPUUsage ==
    /\ ret' = [op |-> "NewCPUUsage",
               r |-> NewCPUUsage(controlGroupMode, mountPointPrefix, statfsFunc, dirs,
                                 files, UnitSubpath)]
    /\ UNCHANGED <<controlGroupMode, mountPointPrefix, statfsFunc, dirs, fs>>
    /\ UNCHANGED <<hostVars, collectVars>>

Call_collectUnitCPUUsageMetrics ==
    /\ ch = <<>>
    /\ ret' = [op |-> "collectUnitCPUUsageMetrics",
               r |-> collectUnitCPUUsageMetrics(controlGroupMode, mountPointPrefix,
                                                statfsFunc, dirs, files, UnitSubpath,
                                                UnitName)]
    /\ ch' = ch \o ret'.r.sent
    /\ UNCHANGED <<controlGroupMode, mountPointPrefix, statfsFunc, dirs, fs>>
    /\ UNCHANGED <<hostVars, logger, workers, wg, pc>>

Call_collectUnitMemMetrics ==
    /\ ch = <<>>
    /\ ret' = [op |-> "collectUnitMemMetrics",
               r |-> collectUnitMemMetrics(controlGroupMode, mountPointPrefix, statfsFunc,
                                           dirs, files, UnitSubpath, UnitName)]
    /\ ch' = ch \o ret'.r.sent
    /\ UNCHANGED <<controlGroupMode, mountPointPrefix, statfsFunc, dirs, fs>>
    /\ UNCHANGED <<hostVars, logger, workers, wg, pc>>

\* the registry takes what was sent on the channel
Receive ==
    /\ ch # <<>>
    /\ ch' = <<>>
    /\ UNCHANGED <<controlGroupMode, mountPointPrefix, statfsFunc, dirs, fs, ret>>
    /\ UNCHANGED <<hostVars, logger, workers, wg, pc>>

NextUsage ==
    \/ Call_NewCPUUsage
    \/ Call_collectUnitCPUUsageMetrics
    \/ Call_collectUnitMemMetrics
    \/ Receive

SpecUsage == InitUsage /\ [][NextUsage]_vars

----------------------------------------------------------------------------
(* Properties of the usage facade.  Host and flags do not change under      *)
(* SpecUsage, so a state relates them to what the last call returned.       *)

\* the handle the flags and the host give
TheFS == NewDefaultFS(controlGroupMode, mountPointPrefix, statfsFunc, dirs)

Topology == TheFS.fs.cgroupUnified

\* C11: NewCPUUsage goes through NewCPUStat if and only if the topology is
\* Unified or Hybrid and through NewCPUAcct otherwise: exactly one reader per
\* call, and none when the topology cannot be determined.
C11_OneReader ==
    ret.op = "NewCPUUsage"
    => /\ TheFS.err # Nil => ret.r.readers = <<>>
       /\ (TheFS.err = Nil /\ Topology \in {MountModeUnified, MountModeHybrid})
             => ret.r.readers = <<"NewCPUStat">>
       /\ (TheFS.err = Nil /\ Topology \notin {MountModeUnified, MountModeHybrid})
             => ret.r.readers = <<"NewCPUAcct">>

\* each of the three cases has happened: here the v233 hybrid host
C11_Witness ==
    /\ ret.op = "NewCPUUsage"
    /\ controlGroupMode = Auto
    /\ Reports(UnifiedRoot, cgroup2SuperMagic)
    /\ TheFS.err = Nil
    /\ Topology = MountModeHybrid
    /\ ret.r.readers = <<"NewCPUStat">>

\* the cpu.stat the topology leads to
TheCpuStat == cgGetPath(TheFS.fs, Str("cpu"), UnitSubpath, Str("cpu.stat")).path

\* the unit's cpu.stat is there and carries zero counters only
CpuStatIsNoData ==
    /\ TheFS.err = Nil
    /\ Topology \in {MountModeUnified, MountModeHybrid}
    /\ TheCpuStat \in DOMAIN files
    /\ files[TheCpuStat].b =
          Terminated(<<KV("usage_usec", Zero), KV("user_usec", Zero), KV("system_usec", Zero)>>)

\* C12: when the cpu.stat reader has no data, NewCPUUsage returns neither a
\* record nor an error, and collectUnitCPUUsageMetrics sends no sample and
\* returns nil; NewCPUUsage never returns a record together with an error.
C12_NoDataNoSample ==
    /\ (ret.op = "NewCPUUsage" /\ CpuStatIsNoData)
          => (ret.r.usage = Nil /\ ret.r.err = Nil)
    /\ (ret.op = "collectUnitCPUUsageMetrics" /\ CpuStatIsNoData)
          => (ret.r.err = Nil /\ ret.r.sent = <<>> /\ ch = <<>>)
    /\ ret.op = "NewCPUUsage" => ~(ret.r.usage # Nil /\ ret.r.err # Nil)

C12_Witness ==
    /\ ret.op = "collectUnitCPUUsageMetrics"
    /\ CpuStatIsNoData
    /\ Topology = MountModeUnified
    /\ ret.r.err = Nil
    /\ ch = <<>>

\* the stat file the CPU reader of the topology opens
TheCpuFile ==
    IF Topology \in {MountModeUnified, MountModeHybrid}
    THEN TheCpuStat
    ELSE cgGetPath(TheFS.fs, Str("cpu"), UnitSubpath, Str("cpuacct.usage_all")).path

TheMemFile == cgGetPath(TheFS.fs, Str("memory"), UnitSubpath, Str("memory.stat")).path

\* C17: when the stat file of the unit is not there, so that opening it fails,
\* collectUnitCPUUsageMetrics and collectUnitMemMetrics return nil and send no
\* sample: the caller still tells the missing file from other failures.
C17_MissingFileSkipped ==
    /\ (ret.op = "collectUnitCPUUsageMetrics" /\ TheFS.err = Nil
            /\ TheCpuFile \notin DOMAIN files)
          => (ret.r.err = Nil /\ ret.r.sent = <<>>)
    /\ (ret.op = "collectUnitMemMetrics" /\ TheFS.err = Nil
            /\ TheMemFile \notin DOMAIN files)
          => (ret.r.err = Nil /\ ret.r.sent = <<>>)

----------------------------------------------------------------------------
(* The collector: one scrape over the units systemd lists *)

\* a dbus.Variant: the dynamic type of the value and the value
Variant(type, value) == <<type, value>>

\* v.Value().(type) with the comma-ok form
AssertOk(v, type) == v[1] = type

unitStatesName == <<"active", "activating", "deactivating", "inactive", "failed">>

errGetPropertyMsg == "couldn't get unit's %s property"

errConvertStringPropertyMsg == "couldn't convert unit's %s property %v to string"

errConvertUint32PropertyMsg == "couldn't convert unit's %s property %v to uint32"

errConvertUint64PropertyMsg == "couldn't convert unit's %s property %v to uint64"

\* parseUnitType: the text after the last dot of the unit's name
parseUnitType(unit) == Last(stringsSplit(unit.Name, "."))

\* strings.Title on the unit types systemd has
stringsTitle(t) ==
    CASE t = Str("service") -> Str("Service")
      [] t = Str("mount") -> Str("Mount")
      [] t = Str("socket") -> Str("Socket")
      [] t = Str("swap") -> Str("Swap")
      [] t = Str("slice") -> Str("Slice")
      [] t = Str("timer") -> Str("Timer")
      [] t = Str("device") -> Str("Device")
      [] OTHER -> t

parseUnitTypeInterface(unit) == stringsTitle(parseUnitType(unit))

Range(s) == {s[i] : i \in DOMAIN s}

\* the unit object systemd has under a name
BusObject(bus, name) == CHOOSE o \in Range(bus.units) : o.Name = name

\* the value systemd holds for a property of a unit
PropertyValue(o, propertyName) ==
    CASE propertyName = "ControlGroup" ->
            IF o.bus = "odd" THEN Variant("uint32", Zero) ELSE Variant("string", o.cg)
      [] propertyName = "RemainAfterExit" -> Variant("bool", o.remain)
      [] propertyName = "Type" -> Variant("string", Str("simple"))
      [] propertyName = "Slice" -> Variant("string", Str("system.slice"))
      [] propertyName = "MainPID" ->
            Variant("uint32", IF o.proc = "none" THEN Zero ELSE Five)
      [] propertyName \in {"NRestarts", "NAccepted", "NConnections", "NRefused"} ->
            Variant("uint32", Five)
      [] propertyName = "TasksMax" -> Variant("uint64", o.tasksMax)
      [] OTHER -> Variant("uint64", Five)

\* conn.GetUnitTypeProperty(unit, unitType, propertyName): a nil property with
\* the error when the unit is gone or has no such interface
GetUnitTypeProperty(bus, name, unitType, propertyName) ==
    IF BusObject(bus, name).bus = "gone"
       \/ unitType # parseUnitTypeInterface(BusObject(bus, name))
    THEN [prop |-> Nil, err |-> Errorf("dbus: no such property", propertyName)]
    ELSE [prop |-> Ref(PropertyValue(BusObject(bus, name), propertyName)), err |-> Nil]

\* conn.GetUnitProperty(unit, propertyName), on the Unit interface every unit has
GetUnitProperty(bus, name, propertyName) ==
    IF BusObject(bus, name).bus = "gone"
    THEN [prop |-> Nil, err |-> Errorf("dbus: no such property", propertyName)]
    ELSE [prop |-> Ref(PropertyValue(BusObject(bus, name), propertyName)), err |-> Nil]

\* what a part of collectUnit leaves: its error, the samples it sent, and
\* whether it panicked
Part(err, sent) == [err |-> err, sent |-> sent, panic |-> FALSE]

Panicked(sent) == [err |-> Nil, sent |-> sent, panic |-> TRUE]

\* a collector that reads one property and sends one sample from it
propertyMetric(p, propertyName, type, msg, desc, unit, label) ==
    IF p.err # Nil THEN Part(Wrapf(p.err, errGetPropertyMsg, propertyName), <<>>)
    ELSE IF ~AssertOk(p.prop[1], type) THEN Part(Errorf(msg, propertyName), <<>>)
    ELSE Part(Nil, <<Metric(desc, p.prop[1][2], unit.Name, label)>>)

\* Collector.collectUnitState: one sample for each state name
collectUnitState(unit) ==
    Part(Nil, [i \in 1..Len(unitStatesName) |->
                  Metric("unitState",
                         IF unitStatesName[i] = unit.ActiveState THEN 1 ELSE 0,
                         unit.Name, unitStatesName[i])])

collectMountMetainfo(bus, unit) ==
    propertyMetric(GetUnitTypeProperty(bus, unit.Name, Str("Mount"), "Type"), "Type",
                   "string", errConvertStringPropertyMsg, "unitInfo", unit, "mount_type")

collectServiceMetainfo(bus, unit) ==
    propertyMetric(GetUnitTypeProperty(bus, unit.Name, Str("Service"), "Type"), "Type",
                   "string", errConvertStringPropertyMsg, "unitInfo", unit, "service_type")

collectServiceRestartCount(bus, unit) ==
    propertyMetric(GetUnitTypeProperty(bus, unit.Name, Str("Service"), "NRestarts"),
                   "NRestarts", "uint32", errConvertUint32PropertyMsg, "nRestartsDesc",
                   unit, "")

collectServiceStartTimeMetrics(bus, unit) ==
    IF unit.ActiveState = "active"
    THEN propertyMetric(GetUnitProperty(bus, unit.Name, "ActiveEnterTimestamp"),
                        "ActiveEnterTimestamp", "uint64", errConvertUint64PropertyMsg,
                        "unitStartTimeDesc", unit, "")
    ELSE Part(Nil, <<Metric("unitStartTimeDesc", Zero, unit.Name, "")>>)

\* collectServiceProcessMetrics after the main PID is known to be a process's
processMetrics(proc, unit, fdMetrics) ==
    IF proc = "vanished" THEN Part(Errorf("procfs: no such process", "MainPID"), <<>>)
    ELSE Part(Nil, <<Metric("cpuTotalDesc", Five, unit.Name, ""),
                     Metric("vsize", Five, unit.Name, ""),
                     Metric("rss", Five, unit.Name, ""),
                     Metric("maxFDs", Five, unit.Name, ""),
                     Metric("maxVsize", Five, unit.Name, "")>>
                   \o IF fdMetrics THEN <<Metric("openFDs", Five, unit.Name, "")>>
                      ELSE <<>>)

\* collectServiceProcessMetrics after  mainPID, err := conn.GetUnitTypeProperty(...)
mainPIDMetrics(p, proc, unit, fdMetrics) ==
    IF p.err # Nil THEN Part(Wrapf(p.err, errGetPropertyMsg, "MainPID"), <<>>)
    ELSE IF ~AssertOk(p.prop[1], "uint32")
    THEN Part(Errorf(errConvertUint32PropertyMsg, "MainPID"), <<>>)
    ELSE IF p.prop[1][2] = Zero THEN Part(Nil, <<>>)
    ELSE processMetrics(proc, unit, fdMetrics)

collectServiceProcessMetrics(bus, unit, fdMetrics) ==
    mainPIDMetrics(GetUnitTypeProperty(bus, unit.Name, Str("Service"), "MainPID"),
                   BusObject(bus, unit.Name).proc, unit, fdMetrics)

\* collectServiceTasksMetrics after one of its two property reads: the count is
\* sent unless it is the largest uint64, which stands for no limit
tasksMetric(p, propertyName, desc, sent, unit) ==
    IF p.err # Nil THEN Part(Wrapf(p.err, errGetPropertyMsg, propertyName), sent)
    ELSE IF ~AssertOk(p.prop[1], "uint64")
    THEN Part(Errorf(errConvertUint64PropertyMsg, propertyName), sent)
    ELSE IF p.prop[1][2] = MaxUint64 THEN Part(Nil, sent)
    ELSE Part(Nil, Append(sent, Metric(desc, p.prop[1][2], unit.Name, "")))

\* collectServiceTasksMetrics after TasksCurrent
tasksMaxMetrics(cur, bus, unit) ==
    IF cur.err # Nil THEN cur
    ELSE tasksMetric(GetUnitTypeProperty(bus, unit.Name, Str("Service"), "TasksMax"),
                     "TasksMax", "unitTasksMaxDesc", cur.sent, unit)

collectServiceTasksMetrics(bus, unit) ==
    tasksMaxMetrics(
        tasksMetric(GetUnitTypeProperty(bus, unit.Name, Str("Service"), "TasksCurrent"),
                    "TasksCurrent", "unitTasksCurrentDesc", <<>>, unit),
        bus, unit)

\* collectSocketConnMetrics at one of its three counters: the value is
\* asserted to be a uint32 without the comma-ok form
socketMetric(acc, p, propertyName, desc, unit) ==
    IF acc.err # Nil \/ acc.panic THEN acc
    ELSE IF p.err # Nil THEN Part(Wrapf(p.err, errGetPropertyMsg, propertyName), acc.sent)
    ELSE IF ~AssertOk(p.prop[1], "uint32") THEN Panicked(acc.sent)
    ELSE Part(Nil, Append(acc.sent, Metric(desc, p.prop[1][2], unit.Name, "")))

collectSocketConnMetrics(bus, unit) ==
    socketMetric(
        socketMetric(
            socketMetric(Part(Nil, <<>>),
                         GetUnitTypeProperty(bus, unit.Name, Str("Socket"), "NAccepted"),
                         "NAccepted", "socketAcceptedConnectionsDesc", unit),
            GetUnitTypeProperty(bus, unit.Name, Str("Socket"), "NConnections"),
            "NConnections", "socketCurrentConnectionsDesc", unit),
        GetUnitTypeProperty(bus, unit.Name, Str("Socket"), "NRefused"),
        "NRefused", "socketRefusedConnectionsDesc", unit)

\* unitPropertyToPromDesc of collectIPAccountingMetrics
ipDesc(propertyName) ==
    CASE propertyName = "IPIngressBytes" -> "ipIngressBytes"
      [] propertyName = "IPEgressBytes" -> "ipEgressBytes"
      [] propertyName = "IPIngressPackets" -> "ipIngressPackets"
      [] propertyName = "IPEgressPackets" -> "ipEgressPackets"

\* one round of the loop of collectIPAccountingMetrics
ipMetric(acc, p, propertyName, unit) ==
    IF acc.err # Nil THEN acc
    ELSE IF p.err # Nil THEN Part(Wrapf(p.err, errGetPropertyMsg, propertyName), acc.sent)
    ELSE IF ~AssertOk(p.prop[1], "uint64")
    THEN Part(Errorf(errConvertUint64PropertyMsg, propertyName), acc.sent)
    ELSE Part(Nil, Append(acc.sent,
                          Metric(ipDesc(propertyName), p.prop[1][2], unit.Name, "")))

\* collectIPAccountingMetrics: the loop over the map, in the order the
\* iteration takes
RECURSIVE ipLoop(_, _, _, _)
ipLoop(acc, order, bus, unit) ==
    IF order = <<>> THEN acc
    ELSE ipLoop(ipMetric(acc, GetUnitTypeProperty(bus, unit.Name, Str("Service"),
                                                  Head(order)),
                         Head(order), unit),
                Tail(order), bus, unit)

collectIPAccountingMetrics(bus, unit, order) == ipLoop(Part(Nil, <<>>), order, bus, unit)

collectTimerTriggerTime(bus, unit) ==
    propertyMetric(GetUnitTypeProperty(bus, unit.Name, Str("Timer"), "LastTriggerUSec"),
                   "LastTriggerUSec", "uint64", errConvertUint64PropertyMsg,
                   "timerLastTriggerDesc", unit, "")

\* getControlGroup after  propCGSubpath, err := conn.GetUnitTypeProperty(...):
\* a path only for a control group that is neither empty nor the root
controlGroupOf(p) ==
    IF p.err # Nil THEN [path |-> Nil, err |-> Wrapf(p.err, errGetPropertyMsg, "ControlGroup")]
    ELSE IF ~AssertOk(p.prop[1], "string")
    THEN [path |-> Nil, err |-> Errorf(errConvertStringPropertyMsg, "ControlGroup")]
    ELSE IF p.prop[1][2] = <<>> \/ p.prop[1][2] = <<Sep>> THEN [path |-> Nil, err |-> Nil]
    ELSE [path |-> Ref(p.prop[1][2]), err |-> Nil]

\* Collector.getControlGroup
getControlGroup(bus, unit) ==
    controlGroupOf(GetUnitTypeProperty(bus, unit.Name, parseUnitTypeInterface(unit),
                                       "ControlGroup"))

errUnitMetricsMsg == "couldn't get unit's metrics: %s"

\* what collectUnit has done so far: the samples sent, the warnings written
\* and whether it panicked
NoneYet == [sent |-> <<>>, warned |-> {}, panic |-> FALSE]

\* logger.Warnf(errUnitMetricsMsg, err) of the logger with the unit's name
Warning(unit, err) == <<errUnitMetricsMsg, unit.Name, err>>

\* one part of collectUnit runs, and its error, if any, is written as a
\* warning unless the part is a quiet one
Warn(acc, part, unit, quiet) ==
    IF acc.panic THEN acc
    ELSE [sent |-> acc.sent \o part.sent,
          warned |-> acc.warned \cup
                     (IF part.err # Nil /\ ~quiet THEN {Warning(unit, part.err)} ELSE {}),
          panic |-> "panic" \in DOMAIN part /\ part.panic]

WarnIf(enabled, acc, part, unit) == IF enabled THEN Warn(acc, part, unit, FALSE) ELSE acc

\* collectUnit below  if cgroupPath == nil { break }
cgroupUsage(acc, path, host, unit) ==
    IF acc.panic \/ path = Nil THEN acc
    ELSE Warn(Warn(acc,
                   collectUnitCPUUsageMetrics(host.mode, host.prefix, host.statfn,
                                              host.dirs, host.files, path[1], unit.Name),
                   unit, parseUnitType(unit) = Str("socket")),
              collectUnitMemMetrics(host.mode, host.prefix, host.statfn, host.dirs,
                                    host.files, path[1], unit.Name),
              unit, FALSE)

\* collectUnit at  if err != nil  after getControlGroup: the RemainAfterExit
\* property is dereferenced before its error is looked at
controlGroupWarning(acc, cg, rae, unit) ==
    IF cg.err = Nil THEN acc
    ELSE IF rae.prop = Nil THEN [acc EXCEPT !.panic = TRUE]
    ELSE IF rae.err # Nil \/ ~AssertOk(rae.prop[1], "bool") \/ ~rae.prop[1][2]
    THEN [acc EXCEPT !.warned = @ \cup {Warning(unit, cg.err)}]
    ELSE acc

\* collectUnit after  cgroupPath, err := c.getControlGroup(conn, unit)
cgroupMetrics(acc, cg, bus, host, unit) ==
    cgroupUsage(controlGroupWarning(acc, cg,
                                    GetUnitTypeProperty(bus, unit.Name, Str("Service"),
                                                        "RemainAfterExit"),
                                    unit),
                cg.path, host, unit)

\* collectUnit: the first switch, the metrics from cgroups
cgroupSwitch(acc, bus, host, unit) ==
    IF parseUnitType(unit) \in {Str("service"), Str("mount"), Str("socket"), Str("swap"),
                                Str("slice")}
    THEN cgroupMetrics(acc, getControlGroup(bus, unit), bus, host, unit)
    ELSE acc

\* collectUnit: case "service" of the second switch
serviceMetrics(acc, bus, flagsv, unit, order) ==
    WarnIf(flagsv.enableIPAccountingMetrics,
           Warn(Warn(WarnIf(flagsv.enableRestartsMetrics,
                            Warn(Warn(acc, collectServiceMetainfo(bus, unit), unit, FALSE),
                                 collectServiceStartTimeMetrics(bus, unit), unit, FALSE),
                            collectServiceRestartCount(bus, unit), unit),
                     collectServiceTasksMetrics(bus, unit), unit, FALSE),
                collectServiceProcessMetrics(bus, unit, flagsv.enableFDMetrics), unit, FALSE),
           collectIPAccountingMetrics(bus, unit, order), unit)

\* collectUnit: the second switch, the metrics from dbus
dbusSwitch(acc, bus, flagsv, unit, order) ==
    CASE acc.panic -> acc
      [] ~acc.panic /\ parseUnitType(unit) = Str("service") ->
            serviceMetrics(acc, bus, flagsv, unit, order)
      [] ~acc.panic /\ parseUnitType(unit) = Str("mount") ->
            Warn(acc, collectMountMetainfo(bus, unit), unit, FALSE)
      [] ~acc.panic /\ parseUnitType(unit) = Str("timer") ->
            Warn(acc, collectTimerTriggerTime(bus, unit), unit, FALSE)
      [] ~acc.panic /\ parseUnitType(unit) = Str("socket") ->
            Warn(acc, collectSocketConnMetrics(bus, unit), unit, FALSE)
      [] OTHER -> acc

\* collectUnit ends with  return nil  unless it panicked on the way
returnNil(acc) ==
    [err |-> Nil, sent |-> acc.sent, warned |-> acc.warned, panic |-> acc.panic]

\* Collector.collectUnit(conn, ch, unit)
collectUnit(bus, host, flagsv, unit, order) ==
    returnNil(dbusSwitch(cgroupSwitch(Warn(NoneYet, collectUnitState(unit), unit, FALSE),
                                      bus, host, unit),
                         bus, flagsv, unit, order))

\* a regular expression of the flags: ".+" and ".+\.(type)"
AnyName == [re |-> ".+"]

NameWithType(type) == [re |-> ".+\\.(type)", type |-> type]

\* regexp.MustCompile(fmt.Sprintf("^(?:%s)$", flag)) of NewCollector: the
\* pattern of the flag between the two anchors
regexpMustCompile(flag) == [anchored |-> flag]

\* regexp.MatchString of a pattern NewCollector compiled: the whole name is
\* to match, so ".+\.(type)" takes a name that ends with a dot and the type
\* and has something before the dot
MatchString(pattern, name) ==
    IF pattern.anchored.re = ".+" THEN name # <<>>
    ELSE /\ Len(name) >= 3
         /\ name[Len(name) - 1] = "."
         /\ name[Len(name)] = pattern.anchored.type

RECURSIVE filterUnits_IgnoresBlocklist(_, _, _)
filterUnits_IgnoresBlocklist(units, whitelistPattern, blacklistPattern) ==
    IF units = <<>> THEN <<>>
    ELSE (IF /\ MatchString(whitelistPattern, Head(units).Name)
             /\ Head(units).LoadState = "loaded"
          THEN <<Head(units)>> ELSE <<>>)
         \o filterUnits_IgnoresBlocklist(Tail(units), whitelistPattern, blacklistPattern)

RECURSIVE filterUnits(_, _, _)
filterUnits(units, whitelistPattern, blacklistPattern) ==
    IF units = <<>> THEN <<>>
    ELSE (IF /\ MatchString(whitelistPattern, Head(units).Name)
             /\ ~MatchString(blacklistPattern, Head(units).Name)
             /\ Head(units).LoadState = "loaded"
          THEN <<Head(units)>> ELSE <<>>)
         \o filterUnits(Tail(units), whitelistPattern, blacklistPattern)

\* the dbus.UnitStatus of a unit
UnitStatus(o) == [Name |-> o.Name, LoadState |-> o.LoadState, ActiveState |-> o.ActiveState]

\* conn.ListUnits()
ListUnits(bus) == [i \in 1..Len(bus.units) |-> UnitStatus(bus.units[i])]

----------------------------------------------------------------------------
(* Scrapes of a host with a few units *)

MaxUnits == 2

\* the flags as they are without a command line, and with every optional
\* metric switched on
DefaultFlags ==
    [unitAllowlist |-> AnyName, unitBlocklist |-> NameWithType("device"),
     enableRestartsMetrics |-> FALSE, enableIPAccountingMetrics |-> FALSE,
     enableFDMetrics |-> FALSE]

AllMetricsFlags ==
    [unitAllowlist |-> AnyName, unitBlocklist |-> NameWithType("device"),
     enableRestartsMetrics |-> TRUE, enableIPAccountingMetrics |-> TRUE,
     enableFDMetrics |-> TRUE]

\* a unit of systemd: what ListUnits tells of it and how its object answers
Unit(name, type, load, active, bus, cg, remain, proc, tasksMax) ==
    [Name |-> <<name, ".", type>>, LoadState |-> load, ActiveState |-> active,
     bus |-> bus, cg |-> cg, remain |-> remain, proc |-> proc, tasksMax |-> tasksMax]

UnitCatalog ==
    { Unit("a", "service", "loaded", "active", "up", UnitSubpath, FALSE, "running", Five),
      Unit("a", "service", "loaded", "active", "gone", UnitSubpath, FALSE, "running", Five),
      Unit("a", "service", "loaded", "inactive", "up", <<>>, TRUE, "none", MaxUint64),
      Unit("a", "service", "loaded", "active", "odd", UnitSubpath, TRUE, "vanished", Five),
      Unit("a", "service", "loaded", "activating", "odd", UnitSubpath, FALSE, "none", Five),
      Unit("b", "socket", "loaded", "active", "up", UnitSubpath, FALSE, "none", Five),
      Unit("b", "socket", "loaded", "active", "odd", UnitSubpath, FALSE, "none", Five),
      Unit("c", "timer", "loaded", "active", "up", <<>>, FALSE, "none", Five),
      Unit("c", "timer", "loaded", "active", "gone", <<>>, FALSE, "none", Five),
      Unit("d", "mount", "loaded", "active", "up", <<>>, FALSE, "none", Five),
      Unit("e", "device", "loaded", "active", "up", <<>>, FALSE, "none", Five),
      Unit("f", "service", "not-found", "inactive", "up", <<>>, FALSE, "none", Five),
      Unit("-", "slice", "loaded", "active", "up", <<Sep>>, FALSE, "none", Five) }

\* the lists ListUnits can give: no name twice
UnitLists ==
    {l \in SeqsUpTo(UnitCatalog, MaxUnits) :
        \A i, j \in DOMAIN l : l[i].Name = l[j].Name => i = j}

\* a bus that cannot be connected to, one that fails to list, and the buses
\* that answer
Buses ==
    {[connect |-> FALSE, list |-> FALSE, units |-> <<>>, conn |-> "none"],
     [connect |-> TRUE, list |-> FALSE, units |-> <<>>, conn |-> "none"]}
      \cup {[connect |-> TRUE, list |-> TRUE, units |-> l, conn |-> "none"] : l \in UnitLists}

\* the orders the loop over the map of IP counters is seen to take
IPOrders ==
    { <<"IPIngressBytes", "IPEgressBytes", "IPIngressPackets", "IPEgressPackets">>,
      <<"IPEgressPackets", "IPIngressPackets", "IPEgressBytes", "IPIngressBytes">> }

\* the host has all the stat files of the unit's control group or none
CollectFiles ==
    {f \in HostFiles(<<>>) :
        DOMAIN f = {} \/ DOMAIN f = CpuStatPaths(<<>>) \cup CpuAcctPaths(<<>>)
                                      \cup MemStatPaths(<<>>)}

InitCollect ==
    /\ controlGroupMode = Auto
    /\ mountPointPrefix = <<>>
    /\ statfsFunc = StatfsTable(<<>>, StatOk(tmpFsMagic), StatOk(cgroup2SuperMagic),
                                StatOk(cgroupSuperMagic))
    /\ dirs = [p \in MountPaths(<<>>) |-> "dir"]
    /\ fs = ZeroFS
    /\ ret = NoRet
    /\ files \in CollectFiles
    /\ dbus \in Buses
    /\ flags \in {DefaultFlags, AllMetricsFlags}
    /\ NoCollect

\* what the flags and the host give to the cgroup readers
Host ==
    [mode |-> controlGroupMode, prefix |-> mountPointPrefix, statfn |-> statfsFunc,
     dirs |-> dirs, files |-> files]

\* the goroutines of collect, one for each unit, none of which has run yet
Started(units) ==
    [i \in 1..Len(units) |-> [unit |-> units[i], state |-> "started", panic |-> FALSE]]

\* Collector.collect up to wg.Wait(): the connection, the list, the filter
\* and the go statements
Call_collect ==
    /\ pc \in {"idle", "returned"}
    /\ ch = <<>>
    /\ IF ~dbus.connect
       THEN /\ ret' = [op |-> "collect",
                       r |-> [err |-> Wrapf(Errorf("dbus: no connection", ""),
                                            "couldn't get dbus connection", "")]]
            /\ workers' = <<>>
            /\ pc' = "returned"
            /\ dbus' = dbus
       ELSE IF ~dbus.list
       THEN /\ ret' = [op |-> "collect",
                       r |-> [err |-> Wrapf(Errorf("dbus: no list", ""),
                                            "could not get list of systemd units from dbus",
                                            "")]]
            /\ workers' = <<>>
            /\ pc' = "returned"
            /\ dbus' = [dbus EXCEPT !.conn = "closed"]
       ELSE /\ ret' = ret
            /\ workers' = Started(filterUnits(ListUnits(dbus),
                                              regexpMustCompile(flags.unitAllowlist),
                                              regexpMustCompile(flags.unitBlocklist)))
            /\ pc' = "waiting"
            /\ dbus' = [dbus EXCEPT !.conn = "open"]
    /\ wg' = Len(workers')
    /\ UNCHANGED <<controlGroupMode, mountPointPrefix, statfsFunc, dirs, fs>>
    /\ UNCHANGED <<files, flags, ch, logger>>

\* the samples of goroutine i that wait on the channel for the registry
Pending(i) == SelectSeq(ch, LAMBDA m : m.unit = workers[i].unit.Name)

\* the goroutine of collect in collectUnit: each  ch <- metric  waits for the
\* registry, so the goroutine goes on only when its samples were taken
unitSends(i, r) ==
    /\ workers' = [workers EXCEPT ![i].state = "sending", ![i].panic = r.panic]
    /\ ch' = ch \o r.sent
    /\ logger' = logger \cup r.warned

\* one goroutine of collect runs collectUnit on the connection of collect
Go_collectUnit(i) ==
    /\ pc # "crashed"
    /\ workers[i].state = "started"
    /\ ch = <<>>
    /\ \E order \in IPOrders :
          unitSends(i, collectUnit(dbus, Host, flags, workers[i].unit, order))
    /\ UNCHANGED <<controlGroupMode, mountPointPrefix, statfsFunc, dirs, fs, ret>>
    /\ UNCHANGED <<hostVars, wg, pc>>

\* the goroutine after collectUnit: wg.Done() and the end of the goroutine, or
\* the panic of collectUnit ends the process
Done_collectUnit(i) ==
    /\ pc # "crashed"
    /\ workers[i].state = "sending"
    /\ Pending(i) = <<>>
    /\ workers' = [workers EXCEPT
                      ![i].state = IF workers[i].panic THEN "panicked" ELSE "done"]
    /\ wg' = IF workers[i].panic THEN wg ELSE wg - 1
    /\ pc' = IF workers[i].panic THEN "crashed" ELSE pc
    /\ UNCHANGED <<controlGroupMode, mountPointPrefix, statfsFunc, dirs, fs, ret>>
    /\ UNCHANGED <<hostVars, ch, logger>>

\* collect returns without wg.Wait()
Return_collect_NoWait ==
    /\ pc = "waiting"
    /\ ret' = [op |-> "collect", r |-> [err |-> Nil]]
    /\ dbus' = [dbus EXCEPT !.conn = "closed"]
    /\ pc' = "returned"
    /\ UNCHANGED <<controlGroupMode, mountPointPrefix, statfsFunc, dirs, fs>>
    /\ UNCHANGED <<files, flags, ch, logger, workers, wg>>

\* Collector.collect from wg.Wait() on: return nil, and the deferred Close
Return_collect ==
    /\ pc = "waiting"
    /\ wg = 0
    /\ ret' = [op |-> "collect", r |-> [err |-> Nil]]
    /\ dbus' = [dbus EXCEPT !.conn = "closed"]
    /\ pc' = "returned"
    /\ UNCHANGED <<controlGroupMode, mountPointPrefix, statfsFunc, dirs, fs>>
    /\ UNCHANGED <<files, flags, ch, logger, workers, wg>>

NextCollect ==
    \/ Call_collect
    \/ \E i \in 1..MaxUnits : i \in DOMAIN workers /\ Go_collectUnit(i)
    \/ \E i \in 1..MaxUnits : i \in DOMAIN workers /\ Done_collectUnit(i)
    \/ Return_collect
    \/ Receive

SpecCollect == InitCollect /\ [][NextCollect]_vars

----------------------------------------------------------------------------
(* Properties of a scrape *)

\* the units collect is to start a collection for
TheUnits ==
    filterUnits(ListUnits(dbus), regexpMustCompile(flags.unitAllowlist),
                regexpMustCompile(flags.unitBlocklist))

\* C18: an error while collecting one unit never aborts the collection of the
\* others: no collectUnit ends other than by returning (nil), collect starts a
\* collection for every filtered unit, the process goes on whatever a unit's
\* reads gave, and once the connection and ListUnits have succeeded collect
\* returns nil with every unit's collection run to its end.
C18_UnitErrorsNeverAbort ==
    /\ pc # "crashed"
    /\ \A i \in DOMAIN workers : workers[i].state \in {"started", "sending", "done"}
    /\ pc = "waiting" => /\ Len(workers) = Len(TheUnits)
                         /\ \A i \in DOMAIN workers : workers[i].unit = TheUnits[i]
    /\ (pc = "returned" /\ dbus.connect /\ dbus.list) =>
          /\ ret.op = "collect"
          /\ ret.r.err = Nil
          /\ \A i \in DOMAIN workers : workers[i].state = "done"

----------------------------------------------------------------------------
(* filterUnits over the lists systemd can give *)

\* what ListUnits can tell of a unit: names of one and of two dots, the load
\* states systemd has
ListedUnits ==
    {[Name |-> n, LoadState |-> l, ActiveState |-> "active", bus |-> "up"] :
        n \in {<<"a", ".", "service">>, <<"b", ".", "device">>,
               <<"c", ".", "device", ".", "service">>, <<"d", ".", "mount">>},
        l \in {"loaded", "not-found", "masked"}}

\* the patterns of the two flags
FilterFlags ==
    {[DefaultFlags EXCEPT !.unitAllowlist = a, !.unitBlocklist = b] :
        a \in {AnyName, NameWithType("service")},
        b \in {NameWithType("device"), NameWithType("service"), NameWithType("none")}}

InitFilter ==
    /\ controlGroupMode = Auto
    /\ mountPointPrefix = <<>>
    /\ statfsFunc = [p \in MountPaths(<<>>) |-> StatFail]
    /\ dirs = [p \in MountPaths(<<>>) |-> "missing"]
    /\ fs = ZeroFS
    /\ ret = NoRet
    /\ files = <<>>
    /\ dbus \in {[connect |-> TRUE, list |-> TRUE, units |-> l, conn |-> "open"] :
                    l \in SeqsUpTo(ListedUnits, MaxUnits)}
    /\ flags \in FilterFlags
    /\ NoCollect

\* units := filterUnits(allUnits, c.unitWhitelistPattern, c.unitBlacklistPattern)
Call_filterUnits ==
    /\ ret' = [op |-> "filterUnits",
               r |-> filterUnits(ListUnits(dbus), regexpMustCompile(flags.unitAllowlist),
                                 regexpMustCompile(flags.unitBlocklist))]
    /\ UNCHANGED <<controlGroupMode, mountPointPrefix, statfsFunc, dirs, fs>>
    /\ UNCHANGED <<hostVars, collectVars>>

NextFilter == Call_filterUnits

SpecFilter == InitFilter /\ [][NextFilter]_vars

\* the places of the list whose unit the flags let through
Kept ==
    {i \in 1..Len(dbus.units) :
        /\ MatchString(regexpMustCompile(flags.unitAllowlist), dbus.units[i].Name)
        /\ ~MatchString(regexpMustCompile(flags.unitBlocklist), dbus.units[i].Name)
        /\ dbus.units[i].LoadState = "loaded"}

\* the k-th of these places
KeptAt(k) == CHOOSE i \in Kept : Cardinality({j \in Kept : j <= i}) = k

\* C21: filterUnits returns, in the order of its input, the units whose name
\* matches the allowlist pattern and not the blocklist pattern and whose
\* LoadState is "loaded": as many units as there are such places in the input,
\* the k-th of them the unit at the k-th such place.
C21_FilterKeepsExactly ==
    ret.op = "filterUnits" =>
        /\ Len(ret.r) = Cardinality(Kept)
        /\ \A k \in 1..Len(ret.r) : ret.r[k] = UnitStatus(dbus.units[KeptAt(k)])

\* a list of two units of which only the second is kept has been filtered
C21_Witness ==
    /\ ret.op = "filterUnits"
    /\ Len(dbus.units) = 2
    /\ Kept = {2}
    /\ Len(ret.r) = 1

----------------------------------------------------------------------------
(* The names of the control group modes (controlgroupmode.go).  Here a      *)
(* string is the sequence of its characters, for the slices to be taken.    *)

_ControlGroupModeName ==
    <<"A", "u", "t", "o", "L", "e", "g", "a", "c", "y", "H", "y", "b", "r", "i", "d",
      "U", "n", "i", "f", "i", "e", "d", "V", "2", "3", "2", "U", "n", "i", "f", "i", "e", "d">>

_ControlGroupModeIndex == <<0, 4, 10, 16, 27, 34>>

_ControlGroupModeLowerName ==
    <<"a", "u", "t", "o", "l", "e", "g", "a", "c", "y", "h", "y", "b", "r", "i", "d",
      "u", "n", "i", "f", "i", "e", "d", "v", "2", "3", "2", "u", "n", "i", "f", "i", "e", "d">>

\* s[lo:hi] of Go
Slice(s, lo, hi) == SubSeq(s, lo + 1, hi)

\* ControlGroupMode.String
ControlGroupMode_String(i) ==
    IF i - 1 < 0 \/ i - 1 >= Len(_ControlGroupModeIndex) - 1
    THEN <<"ControlGroupMode(", i, ")">>
    ELSE Slice(_ControlGroupModeName, _ControlGroupModeIndex[i], _ControlGroupModeIndex[i + 1])

_ControlGroupModeValues == <<Auto, Legacy, Hybrid, Unified>>

\* the map from a name to its mode, as the set of its entries
_ControlGroupModeNameToValueMap ==
    { <<Slice(_ControlGroupModeName, 0, 4), Auto>>,
      <<Slice(_ControlGroupModeLowerName, 0, 4), Auto>>,
      <<Slice(_ControlGroupModeName, 4, 10), Legacy>>,
      <<Slice(_ControlGroupModeLowerName, 4, 10), Legacy>>,
      <<Slice(_ControlGroupModeName, 10, 16), Hybrid>>,
      <<Slice(_ControlGroupModeLowerName, 10, 16), Hybrid>>,
      <<Slice(_ControlGroupModeName, 16, 27), UnifiedV232>>,
      <<Slice(_ControlGroupModeLowerName, 16, 27), UnifiedV232>>,
      <<Slice(_ControlGroupModeName, 27, 34), Unified>>,
      <<Slice(_ControlGroupModeLowerName, 27, 34), Unified>> }

_ControlGroupModeNames ==
    << Slice(_ControlGroupModeName, 0, 4),
       Slice(_ControlGroupModeName, 4, 10),
       Slice(_ControlGroupModeName, 10, 16),
       Slice(_ControlGroupModeName, 16, 23) >>

UpperChars ==
    <<"A", "B", "C", "D", "E", "F", "G", "H", "I", "J", "K", "L", "M", "N", "O", "P", "Q",
      "R", "S", "T", "U", "V", "W", "X", "Y", "Z">>

LowerChars ==
    <<"a", "b", "c", "d", "e", "f", "g", "h", "i", "j", "k", "l", "m", "n", "o", "p", "q",
      "r", "s", "t", "u", "v", "w", "x", "y", "z">>

\* unicode.ToLower on one character
charToLower(c) ==
    IF \E k \in DOMAIN UpperChars : UpperChars[k] = c
    THEN LowerChars[CHOOSE k \in DOMAIN UpperChars : UpperChars[k] = c]
    ELSE c

\* strings.ToLower
stringsToLower(s) == [k \in DOMAIN s |-> charToLower(s[k])]

\* val, ok := _ControlGroupModeNameToValueMap[s]
mapLookup(m, s) ==
    IF \E e \in m : e[1] = s
    THEN [val |-> (CHOOSE e \in m : e[1] = s)[2], ok |-> TRUE]
    ELSE [val |-> 0, ok |-> FALSE]

ControlGroupModeString_ExactOnly(s) ==
    IF mapLookup(_ControlGroupModeNameToValueMap, s).ok
    THEN [val |-> mapLookup(_ControlGroupModeNameToValueMap, s).val, err |-> Nil]
    ELSE [val |-> 0, err |-> Errorf("%s does not belong to ControlGroupMode values", s)]

\* ControlGroupModeString(s)
ControlGroupModeString(s) ==
    IF mapLookup(_ControlGroupModeNameToValueMap, s).ok
    THEN [val |-> mapLookup(_ControlGroupModeNameToValueMap, s).val, err |-> Nil]
    ELSE IF mapLookup(_ControlGroupModeNameToValueMap, stringsToLower(s)).ok
    THEN [val |-> mapLookup(_ControlGroupModeNameToValueMap, stringsToLower(s)).val,
          err |-> Nil]
    ELSE [val |-> 0, err |-> Errorf("%s does not belong to ControlGroupMode values", s)]

ControlGroupModeValues == _ControlGroupModeValues

ControlGroupModeStrings == _ControlGroupModeNames

\* ControlGroupMode.IsAControlGroupMode
IsAControlGroupMode(i) == \E k \in DOMAIN _ControlGroupModeValues : _ControlGroupModeValues[k] = i

----------------------------------------------------------------------------
(* Calls of the enumeration helpers *)

\* the five modes that have a name
NamedModes == {Auto, Legacy, Hybrid, UnifiedV232, Unified}

\* the five names in lower case
ModeNames == {stringsToLower(ControlGroupMode_String(m)) : m \in NamedModes}

\* every way to write a name in capital and small letters
RECURSIVE LetterCases(_)
LetterCases(s) ==
    IF s = <<>> THEN {<<>>}
    ELSE {<<c>> \o t : c \in {Head(s)} \cup {u \in Range(UpperChars) : charToLower(u) = Head(s)},
                       t \in LetterCases(Tail(s))}

\* strings that are no name: the empty one, names cut short or with a character
\* more, in both cases
OtherStrings ==
    {<<>>, <<"x">>, <<" ">>}
      \cup {SubSeq(n, 1, Len(n) - 1) : n \in ModeNames}
      \cup {SubSeq(n, 2, Len(n)) : n \in ModeNames}
      \cup {n \o <<c>> : n \in ModeNames, c \in {" ", "s", "2", "V"}}
      \cup {<<c>> \o n : n \in ModeNames, c \in {" ", "_"}}
      \cup {<<"A", "U", "T", "0">>, <<"u", "n", "i", "f", "i", "e", "d", "v", "2">>,
            <<"U", "N", "I", "F", "I", "E", "D", "V", "1">>, <<"c", "g", "r", "o", "u", "p">>}

ModeInputs == UNION {LetterCases(n) : n \in ModeNames} \cup OtherStrings

\* int8 values around the enumeration
ModeValues == 0..6

InitModes ==
    /\ controlGroupMode = Auto
    /\ mountPointPrefix = <<>>
    /\ statfsFunc = [p \in MountPaths(<<>>) |-> StatFail]
    /\ dirs = [p \in MountPaths(<<>>) |-> "missing"]
    /\ fs = ZeroFS
    /\ ret = NoRet
    /\ NoHost
    /\ NoCollect

Call_ControlGroupModeString(s) ==
    /\ ret' = [op |-> "ControlGroupModeString", s |-> s, r |-> ControlGroupModeString(s)]
    /\ UNCHANGED <<controlGroupMode, mountPointPrefix, statfsFunc, dirs, fs>>
    /\ UNCHANGED <<hostVars, collectVars>>

Call_String(i) ==
    /\ ret' = [op |-> "String", i |-> i, r |-> ControlGroupMode_String(i)]
    /\ UNCHANGED <<controlGroupMode, mountPointPrefix, statfsFunc, dirs, fs>>
    /\ UNCHANGED <<hostVars, collectVars>>

Call_IsAControlGroupMode(i) ==
    /\ ret' = [op |-> "IsAControlGroupMode", i |-> i, r |-> IsAControlGroupMode(i)]
    /\ UNCHANGED <<controlGroupMode, mountPointPrefix, statfsFunc, dirs, fs>>
    /\ UNCHANGED <<hostVars, collectVars>>

Call_ControlGroupModeStrings ==
    /\ ret' = [op |-> "ControlGroupModeStrings", r |-> ControlGroupModeStrings]
    /\ UNCHANGED <<controlGroupMode, mountPointPrefix, statfsFunc, dirs, fs>>
    /\ UNCHANGED <<hostVars, collectVars>>

Call_ControlGroupModeValues ==
    /\ ret' = [op |-> "ControlGroupModeValues", r |-> ControlGroupModeValues]
    /\ UNCHANGED <<controlGroupMode, mountPointPrefix, statfsFunc, dirs, fs>>
    /\ UNCHANGED <<hostVars, collectVars>>

NextModes ==
    \/ \E s \in ModeInputs : Call_ControlGroupModeString(s)
    \/ \E i \in ModeValues : Call_String(i)
    \/ \E i \in ModeValues : Call_IsAControlGroupMode(i)
    \/ Call_ControlGroupModeStrings
    \/ Call_ControlGroupModeValues

SpecModes == InitModes /\ [][NextModes]_vars

\* the mode a lower-case name stands for, by the order of the declaration
ModeOfName(n) == CHOOSE m \in NamedModes : stringsToLower(ControlGroupMode_String(m)) = n

\* C22: ControlGroupModeString takes each of the names auto, legacy, hybrid,
\* unifiedv232 and unified in any letter case and gives the mode of that name,
\* five different modes for the five names; it gives an error for any other
\* string; and the name String gives for a mode is parsed back to that mode.
C22_ParsesFiveNames ==
    /\ Cardinality(ModeNames) = 5
    /\ \A n1, n2 \in ModeNames : ModeOfName(n1) = ModeOfName(n2) => n1 = n2
    /\ ret.op = "ControlGroupModeString" =>
          IF stringsToLower(ret.s) \in ModeNames
          THEN ret.r.err = Nil /\ ret.r.val = ModeOfName(stringsToLower(ret.s))
          ELSE ret.r.err # Nil
    /\ ret.op = "String" /\ ret.i \in NamedModes =>
          ControlGroupModeString(ret.r) = [val |-> ret.i, err |-> Nil]

\* a name in mixed case that is no key of the map has been parsed
C22_Witness ==
    /\ ret.op = "ControlGroupModeString"
    /\ ret.s = <<"u", "N", "i", "F", "i", "E", "d", "V", "2", "3", "2">>
    /\ ret.r = [val |-> UnifiedV232, err |-> Nil]

\* the names the flag --collector.control-group-mode offers
FlagNames == {stringsToLower(ControlGroupModeStrings[k]) : k \in DOMAIN ControlGroupModeStrings}

\* C30: the helpers agree with the parser: a mode ControlGroupModeString
\* returns is one IsAControlGroupMode takes, and ControlGroupModeStrings and
\* ControlGroupModeValues list each of the five modes once, so that every
\* mode the parser takes can be chosen with the flag.
C30_HelpersAgreeWithParser ==
    /\ ret.op = "ControlGroupModeString" /\ ret.r.err = Nil => IsAControlGroupMode(ret.r.val)
    /\ ret.op = "ControlGroupModeStrings" =>
          /\ Len(ret.r) = 5
          /\ {ControlGroupModeString(ret.r[k]).val : k \in DOMAIN ret.r} = NamedModes
    /\ ret.op = "ControlGroupModeValues" =>
          /\ Len(ret.r) = 5
          /\ Range(ret.r) = NamedModes

----------------------------------------------------------------------------
(* Overrides against detection *)

\* the layout an override names, as a probe table: a legacy host, a hybrid
\* host of systemd v232, a host with cgroup2 at the default root
LayoutOf(mode, prefix) ==
    CASE mode = Legacy ->
            StatfsTable(prefix, StatOk(tmpFsMagic), StatFail, StatOk(cgroupSuperMagic))
      [] mode = UnifiedV232 ->
            StatfsTable(prefix, StatOk(tmpFsMagic), StatFail, StatOk(cgroup2SuperMagic))
      [] mode = Unified ->
            StatfsTable(prefix, StatOk(cgroup2SuperMagic), StatFail, StatFail)

\* topology and both roots of a classification
HandleOf(c) == <<c.mode, c.unifiedPath, c.legacyPath>>

\* C24: an override gives the handle (topology, unified root, legacy root)
\* that Auto detection gives on the layout the override names: Legacy as on a
\* legacy host, UnifiedV232 as on a v232 hybrid host, Unified as on a host
\* with cgroup2 at the default root, which is topology Unified with the
\* default root as unified root and no legacy root.
C24_OverrideAsDetected ==
    (ret.op = "cgUnifiedCached" /\ controlGroupMode \in {Legacy, UnifiedV232, Unified}) =>
        /\ ret.r.err = Nil
        /\ HandleOf(ret.r) =
              HandleOf(cgUnifiedCached(Auto, mountPointPrefix,
                                       LayoutOf(controlGroupMode, mountPointPrefix)))
        /\ controlGroupMode = Unified =>
              HandleOf(ret.r) = <<MountModeUnified, DefaultRoot, <<>>>>

----------------------------------------------------------------------------
(* The order of the lines of cpu.stat *)

\* the lines of a file in another order
Reordered(lines, p) == [i \in DOMAIN lines |-> lines[p[i]]]

Orders(n) == {p \in [1..n -> 1..n] : \A i, j \in 1..n : p[i] = p[j] => i = j}

\* C25: for a cpu.stat file of well-formed lines with keys all different,
\* what NewCPUStat returns does not depend on the order of the lines: the file
\* with its lines in any other order gives the same result, and a record that
\* is returned has in UserMicrosec the value of the user_usec line and in
\* SystemMicrosec the value of the system_usec line, 0 for a line that is not
\* there.
C25_LineOrderIrrelevant ==
    (/\ ReadCpuStat
     /\ HasLines(TheLines)
     /\ \A i \in 1..Len(TheLines) : TheLines[i] \in WellFormedLines
     /\ \A i, j \in 1..Len(TheLines) : TheLines[i][1] = TheLines[j][1] => i = j)
    => /\ ret.r.stat # Nil =>
             /\ ret.r.stat[1].UserMicrosec = LastValue(TheLines, "user_usec")
             /\ ret.r.stat[1].SystemMicrosec = LastValue(TheLines, "system_usec")
       /\ \A p \in Orders(Len(TheLines)) :
             NewCPUStat(fs, FixtureCpuStat :> RegularFile(Terminated(Reordered(TheLines, p))),
                        <<Sep>>) = ret.r

----------------------------------------------------------------------------
(* Detection against the handle *)

\* a mount point is there as a directory exactly when its probe succeeds
DirsFollowProbes ==
    \A p \in MountPaths(mountPointPrefix) : (dirs[p] = "dir") <=> statfsFunc[p].ok

\* the classification Auto gives on the host
Detected == cgUnifiedCached(Auto, mountPointPrefix, statfsFunc)

\* C26: when Auto classification gives a known topology without error, on a
\* host where a mount point is a directory exactly when its probe succeeds,
\* NewDefaultFS succeeds there too and its handle has that topology and those
\* two roots; so it does on the v232 hybrid layout, whose unified sibling is
\* not there.
C26_HandleAfterDetection ==
    (/\ ret.op = "NewDefaultFS"
     /\ controlGroupMode = Auto
     /\ DirsFollowProbes
     /\ Detected.err = Nil
     /\ Detected.mode # MountModeUnknown)
    => /\ ret.r.err = Nil
       /\ ret.r.fs = FS(Detected.mode, Detected.unifiedPath, Detected.legacyPath)

----------------------------------------------------------------------------
(* The goroutines of a scrape and the return of collect *)

\* the goroutines of collect that have not ended
Running == {i \in DOMAIN workers : workers[i].state # "done"}

\* the step of a goroutine that ends it, every goroutine having ended after it
LastUnitFinishes ==
    /\ \E i \in DOMAIN workers : /\ workers[i].state = "sending"
                                 /\ workers'[i].state = "done"
    /\ \A i \in DOMAIN workers' : workers'[i].state = "done"

\* C27: collect returns, and the connection is closed, only after every
\* goroutine has ended: while a goroutine has collectUnit or a send before it,
\* collect waits and the connection is open; no sample is on the channel at
\* the return; the counter of the wait group is the number of goroutines not
\* ended, it changes by wg.Add of a call and by one wg.Done at a time, and it
\* comes to zero only by the step that ends the last goroutine.
C27_ReturnsAfterGoroutines ==
    /\ [](/\ wg = Cardinality(Running)
          /\ (pc = "returned" \/ dbus.conn = "closed") => (Running = {} /\ ch = <<>>)
          /\ \A i \in DOMAIN workers :
                workers[i].state \in {"started", "sending"} =>
                   (pc \in {"waiting", "crashed"} /\ dbus.conn = "open"))
    /\ [][/\ wg' # wg => \/ pc \in {"idle", "returned"} /\ wg' = Len(workers')
                         \/ pc = "waiting" /\ pc' = "waiting" /\ wg' = wg - 1
          /\ (wg # 0 /\ wg' = 0) => LastUnitFinishes
          /\ (pc = "waiting" /\ pc' = "returned") => wg = 0]_vars

\* collect has returned nil after two goroutines, the connection is closed
C27_Witness ==
    /\ pc = "returned"
    /\ ret = [op |-> "collect", r |-> [err |-> Nil]]
    /\ Len(workers) = 2
    /\ \A i \in DOMAIN workers : workers[i].state = "done"
    /\ wg = 0
    /\ dbus.conn = "closed"

\* goroutine i can run collectUnit: ENABLED of Go_collectUnit(i), which has a
\* step for every unit and every order of the loop over the IP counters
CanGo(i) ==
    /\ i \in DOMAIN workers
    /\ pc # "crashed"
    /\ workers[i].state = "started"
    /\ ch = <<>>

\* a step of Go_collectUnit(i), told by what it does to the goroutine
Went(i) ==
    /\ CanGo(i)
    /\ i \in DOMAIN workers'
    /\ workers'[i].state = "sending"

\* the scheduler runs every goroutine that can run (weak fairness of
\* Go_collectUnit(i), its ENABLED written as CanGo(i)) and lets it end, the
\* registry takes what is sent, and collect goes on when wg.Wait() lets it
SpecCollectFair ==
    /\ SpecCollect
    /\ \A i \in 1..MaxUnits :
          /\ []<>(~CanGo(i)) \/ []<><<Went(i)>>_vars
          /\ WF_vars(i \in DOMAIN workers /\ Done_collectUnit(i))
    /\ WF_vars(Receive)
    /\ WF_vars(Return_collect)

\* C28: under fair scheduling, with every sample received and every call
\* returning, a collect that waits for its goroutines returns in the end.
C28_CollectReturns == (pc = "waiting") ~> (pc = "returned")

\* Collector.Describe: the descriptors sent, in the order of the sends
Describe ==
    <<"unitState", "unitInfo", "unitStartTimeDesc", "unitTasksCurrentDesc",
      "unitTasksMaxDesc", "nRestartsDesc", "timerLastTriggerDesc",
      "socketAcceptedConnectionsDesc", "socketCurrentConnectionsDesc",
      "socketRefusedConnectionsDesc", "cpuTotalDesc", "openFDs", "maxFDs", "vsize",
      "maxVsize", "rss", "ipIngressBytes", "ipEgressBytes", "ipIngressPackets",
      "ipEgressPackets">>

\* C29: every sample a scrape sends on the channel has a descriptor that
\* Describe sends.
C29_SamplesAreDescribed ==
    \A k \in DOMAIN ch : ch[k].desc \in Range(Describe)

====
